---------------------------- MODULE Spec2Model ----------------------------
(***************************************************************************)
(* State-machine model of UserTableSyncService (userTableSync.js): the     *)
(* scheduled batch reconciler, the LISTEN/NOTIFY real-time path and its     *)
(* reconnection, the retry helper, setup, shutdown and the two stores they *)
(* read and write.                                                         *)
(*                                                                         *)
(* Time is discrete; one tick is one minute (the unit of                   *)
(* syncIntervalMinutes).  Times are kept relative to "now": an active      *)
(* source row carries its age (now - updated_at), a timer the ticks that   *)
(* remain, a pass the ticks elapsed since it computed `since`.  The filter *)
(* updated_at > since of a pass is then  age < lookback + elapsed.         *)
(* Timestamps are compared at the granularity of a tick: a pass of n ticks *)
(* stands for the passes that last n minutes or a little more.             *)
(* User data is abstracted to a version number `ver`: transformUserData is *)
(* injective on it, so "the destination row equals the transform of the    *)
(* source row" is equality of versions.                                    *)
(* A step of the model runs the code between two awaits.  logError's own   *)
(* insert into sync_errors is taken with the step that calls it.           *)
(* The counters of syncStats and the health evaluation are followed in the *)
(* specification of the statistics, where logError and the other writers   *)
(* of syncStats are steps of their own; the other specifications leave the *)
(* statistics out of their steps.                                          *)
(***************************************************************************)
EXTENDS Integers, Sequences, FiniteSets, TLC

\* ------------------------------------------------------------ bounds
NumIds == 1
MaxVer == 2
MaxPassTicks == 2
MaxSchedulerStarts == 2
MaxChannel == 1
MaxHandlers == 1
\* stands for the page size of a scheduled pass (const limit = 500)
PageLimit == 1
\* users the source already holds when the service is set up
NumSeedIds == 2
\* reconnection timers pending at once
MaxReconnectTimers == 2
\* pg clients the listener creates in a run
MaxClients == 3
\* stands for the sleeps of one second that shutdown's wait of maxWait = 30000
\* milliseconds is made of
MaxWaitPolls == 2

\* RETRY_BACKOFF_MULTIPLIER: 2 up to this
MaxMultiplier == 3
\* RETRY_INITIAL_DELAY: the default times 1 up to this; RETRY_MAX_DELAY: the
\* default divided by 1 up to this
MaxDelayScale == 2
\* the leading characters of a sampled role that may be upper case
MaxCaseLetters == 3
\* the eighth hex character of a sampled id: 0 up to this
MaxLastDigit == 1
\* calls of logError in a run
MaxErrors == 6
\* seconds on either side of the staleness threshold that are told apart
TimeSpread == 1

\* ------------------------------------------------- program constants
\* this.syncStats.consecutiveFailures < 5
failureThreshold == 5
\* timeSinceLastSync < 600
staleAfterSeconds == 600
\* parseInt(process.env.RETRY_INITIAL_DELAY) || 1000
initialDelayMs == 1000
\* parseInt(process.env.RETRY_MAX_DELAY) || 30000
maxDelayMs == 30000
\* parseFloat(process.env.RETRY_BACKOFF_MULTIPLIER) || 2
backoffMultiplier == 2
syncIntervalMinutes == 1
syncWindowMultiplier == 3
maxRetries == 3
maxReconnectAttempts == 10

Ids == 1..NumIds
\* the users of the seed population
SeedIds == (NumIds + 1)..(NumIds + NumSeedIds)
AllIds == Ids \cup SeedIds
\* setup's initial sync: const limit = 1000, twice the page of a scheduled pass
SetupPageLimit == 2 * PageLimit
\* lookbackMinutes = intervalMinutes * this.syncWindowMultiplier
lookbackMinutes == syncIntervalMinutes * syncWindowMultiplier
\* a row at least this old is outside the window of every pass in flight
AgeCap == lookbackMinutes + MaxPassTicks

VARIABLES
    src,                  \* source table users: id -> [status, ver, age]
    dest,                 \* destination table users: a set of rows
    isListening,          \* this.isListening
    channel,              \* notifications delivered to the LISTEN client, not yet emitted
    handlers,             \* 'notification' handler invocations in flight
    pendingRejections,    \* rejected handler promises the process has not yet handled
    shutdownPc,           \* "none", "waiting" (shutdown running), "exited"
    isSyncInProgress,     \* this.isSyncInProgress
    scheduledSyncTimeout, \* this.scheduledSyncTimeout: 0 null, -1 a fired or cleared handle, else a pending timer
    timers,               \* pending setTimeout callbacks of the scheduler
    passes,               \* batch passes in flight: scheduled ones and setup's initial sync
    schedulerStarts,      \* calls of startScheduledSync so far
    storeFaults,          \* whether the stores may fail queries in this run
    errorLog,             \* sync_errors: the error types logError has recorded
    deleteHandled,        \* ids whose DELETE notification the handler has processed
    lastStep,             \* what the step that led to this state did: a set of events [op, n]
    realtimeReconnectAttempts, \* this.realtimeReconnectAttempts
    realtimeReconnectTimeout,  \* this.realtimeReconnectTimeout: 0 null, -1 a fired or cleared handle, else a pending timer
    reconnectTimers,      \* handles of the pending setTimeout callbacks of attemptRealtimeReconnection
    connecting,           \* calls of startRealTimeSync by a reconnection timer, between guard and outcome
    realtimeClient,       \* this.realtimeClient: "none", "listening" (handlers attached), "broken"
                          \* (handlers attached, connection lost), "ended", "bare" (no handlers)
    setupPc,              \* setup(): "none" not called, "sync", "listener", "connecting", "scheduler",
                          \* "verify", "done", "failed"
    httpServer,           \* this.httpServer is listening
    shutdownReason,       \* the argument of shutdown(), "none" before it is called
    waited,               \* sleeps of shutdown's wait loop so far
    poolsOpen,            \* sourcePool and chatPool have not been ended
    statsReported,        \* shutdown has logged 'Final statistics'
    exitCode,             \* the argument of process.exit, -1 while the process runs
    syncStats,            \* this.syncStats: errors, consecutiveFailures, lastSyncDuration in
                          \* milliseconds (0 null), and lastSyncTime as the seconds since it (-1 null)
    health,               \* what the last call of getHealthStatus returned
    retryConfig,          \* this.retryConfig: initialDelayMs, maxDelayMs, backoffMultiplier
    backoffCall,          \* the last backoff wait: the function, its attempt number, the delay
    transformCall,        \* the last call of transformUserData: its argument and result
    previousTransform,    \* the call before the last one: its id and phones
    roleCall,             \* the last call of mapRole: its argument and result
    clientRef,            \* this.realtimeClient as an object reference: 0 null, else a client
    clientObjs,           \* the pg clients created so far: the state of the connection,
                          \* whether LISTEN ran on it, its 'notification' listeners
    startCalls,           \* calls of startRealTimeSync in flight, each at an await
    logErrorCalls,        \* invocations of logError so far
    placeholderCall       \* the last call of the diagnostic tool's generatePlaceholderPhone:
                          \* its argument and result

\* the reconnection state of the listener
rtVars == <<realtimeReconnectAttempts, realtimeReconnectTimeout, reconnectTimers,
            connecting, realtimeClient>>

\* the state of setup and shutdown
lifeVars == <<setupPc, httpServer, shutdownPc, shutdownReason, waited, poolsOpen,
              statsReported, exitCode>>

\* the listener's client objects, followed in the specification of the clients
clientVars == <<clientRef, clientObjs, startCalls>>

\* the state of the units that are followed in specifications of their own
unitVars == <<syncStats, health, retryConfig, backoffCall, transformCall,
              previousTransform, roleCall, clientVars, logErrorCalls,
              placeholderCall>>

vars == <<src, dest, isListening, channel, handlers, pendingRejections,
          isSyncInProgress, scheduledSyncTimeout, timers, passes, schedulerStarts,
          storeFaults, errorLog, deleteHandled, lastStep, rtVars, lifeVars, unitVars>>

\* ------------------------------------------------------------ helpers
Min(S) == CHOOSE x \in S : \A y \in S : x <= y

Older(a) == IF a < AgeCap THEN a + 1 ELSE AgeCap

\* what a store call may do: succeed (TRUE) or, when the stores are faulty, fail
Outcomes == IF storeFaults THEN {TRUE, FALSE} ELSE {TRUE}

\* the process is alive: process.exit has not run
Running == shutdownPc # "exited"

\* lastStep of a step no property observes
Quiet == {}

Event(op, n) == [op |-> op, n |-> n]

\* ------------------------------------------------- record transformer
\* transformUserData: externalId is the source id; metaData.status carries the
\* source status; the other engine-owned fields are abstracted by ver.
\* socketId: null, isOnline: false, lastSeen: null (0 stands for null).
transformUserData(u) ==
    [externalId |-> u.id, ver |-> u.ver, status |-> u.status,
     socketId |-> 0, isOnline |-> FALSE, lastSeen |-> 0]

\* ------------------------------------------------- destination store
\* a plain INSERT, without the ON CONFLICT clause
InsertOnly(table, row) == table \cup {row}

\* an upsert that overwrites every column of the row it hits
ReplaceRow(table, row) ==
    IF \E r \in table : r.externalId = row.externalId
    THEN {r \in table : r.externalId # row.externalId} \cup {row}
    ELSE table \cup {row}

\* INSERT ... ON CONFLICT DO NOTHING
InsertOrIgnore(table, row) ==
    IF \E r \in table : r.externalId = row.externalId THEN table
    ELSE table \cup {row}

\* the presence columns, which the destination system writes
Presence(r) == <<r.socketId, r.isOnline, r.lastSeen>>

\* INSERT ... ON CONFLICT ("externalId") DO UPDATE SET ...: the SET list names
\* the columns ver and status stand for; "socketId", "isOnline" and "lastSeen"
\* are not in it and keep the values of the row that is hit
UpsertQuery(table, row) ==
    IF \E r \in table : r.externalId = row.externalId
    THEN {IF r.externalId = row.externalId
          THEN [row EXCEPT !.socketId = r.socketId, !.isOnline = r.isOnline,
                           !.lastSeen = r.lastSeen]
          ELSE r : r \in table}
    ELSE table \cup {row}

\* the events of an upsert the store has executed: the id, and whether the row
\* was already there with the same synced columns
UpsertEvents(table, row) ==
    {Event("upserted", row.externalId)}
    \cup (IF \E r \in table : /\ r.externalId = row.externalId
                               /\ r.ver = row.ver /\ r.status = row.status
          THEN {Event("upsertedSame", row.externalId)} ELSE {})

\* a DELETE that removes nothing
KeepRows(table, id) == table

\* DELETE FROM users WHERE "externalId" = $1
DeleteQuery(table, id) == {r \in table : r.externalId # id}

\* RETURNING id: result.rows.length of that DELETE
RowsMatching(table, id) == Cardinality({r \in table : r.externalId = id})

InDest(id) == \E r \in dest : r.externalId = id

\* the destination holds the transform of the source row's present state
Synced(id) == \E r \in dest : r.externalId = id /\ r.ver = src[id].ver

\* ------------------------------------------------------ retry helper
\* a loop of maxRetries iterations
RetryLoopShort(attempt) == attempt < maxRetries

\* for (let attempt = 0; attempt <= this.retryConfig.maxRetries; attempt++)
RetryLoopContinues(attempt) == attempt <= maxRetries

\* ------------------------------------------------ scheduler timers
\* clearTimeout(handle): a fired or cleared handle clears nothing
ClearTimeout(ts, handle) == {t \in ts : t.h # handle}

FreeHandle(ts) == Min((1..(MaxSchedulerStarts + 1)) \ {t.h : t \in ts})

\* a rescheduling that arms nothing
ArmNothing(ts) ==
    /\ timers' = ts
    /\ scheduledSyncTimeout' = scheduledSyncTimeout

\* scheduleNextSync: clear the timer this.scheduledSyncTimeout names, arm a new
\* one for runScheduledSyncCycle a full interval later.
scheduleNextSync(ts) ==
    LET kept == IF scheduledSyncTimeout # 0
                THEN ClearTimeout(ts, scheduledSyncTimeout) ELSE ts
        h == FreeHandle(kept)
    IN  /\ timers' = kept \cup {[h |-> h, kind |-> "cycle", rem |-> syncIntervalMinutes]}
        /\ scheduledSyncTimeout' = h

\* startScheduledSync: arm the first trigger (runScheduledSync) one interval ahead
ArmFirstTrigger ==
    /\ schedulerStarts' = schedulerStarts + 1
    /\ LET h == FreeHandle(timers)
       IN  /\ timers' = timers \cup {[h |-> h, kind |-> "first", rem |-> syncIntervalMinutes]}
           /\ scheduledSyncTimeout' = h

\* a call of startScheduledSync
StartScheduledSync ==
    /\ Running
    /\ schedulerStarts < MaxSchedulerStarts
    /\ ArmFirstTrigger
    /\ lastStep' = Quiet
    /\ UNCHANGED <<src, dest, isListening, channel, handlers, pendingRejections,
                   isSyncInProgress, passes, storeFaults, unitVars, errorLog, deleteHandled,
                   rtVars, lifeVars>>

\* ------------------------------------------------------- source store
\* The rows a page query returns: WHERE status = 'active' AND id IS NOT NULL
\* AND updated_at > since.
Eligible(id, elapsed) ==
    /\ src[id].status = "active"
    /\ src[id].age < lookbackMinutes + elapsed

\* ORDER BY updated_at DESC: youngest first; rows of equal updated_at in any order
Orderings(S) ==
    {s \in [1..Cardinality(S) -> S] :
        /\ \A i, j \in 1..Cardinality(S) : i < j =>
              /\ s[i] # s[j]
              /\ src[s[i]].age <= src[s[j]].age}

\* LIMIT $1 OFFSET $2 of an ordering
PageOf(ord, offset, limit) ==
    [i \in 1..(IF Len(ord) - offset >= limit THEN limit
               ELSE IF Len(ord) > offset THEN Len(ord) - offset ELSE 0) |->
        [id |-> ord[offset + i], ver |-> src[ord[offset + i]].ver,
         status |-> src[ord[offset + i]].status]]

\* the results bulkSyncUsers' SELECT can return for a pass; setup's initial
\* sync passes no sinceDate and the updated_at condition is left out
PageQuery(p) ==
    {PageOf(ord, p.offset, p.limit) :
        ord \in Orderings({id \in AllIds :
                    IF p.kind = "setup" THEN src[id].status = "active"
                    ELSE Eligible(id, p.elapsed)})}

\* notify_user_changes(): pg_notify('user_changes', ...) reaches the client only
\* while it has LISTENed
Notify(msg) ==
    IF isListening
    THEN /\ Len(channel) < MaxChannel
         /\ channel' = Append(channel, msg)
    ELSE UNCHANGED channel

\* a scheduled pass has started: one is in flight or the next one is armed
SchedulerCycling == isSyncInProgress \/ \E t \in timers : t.kind = "cycle"

\* the upstream application inserts or updates a user row (updated_at = now)
SrcWrite(id, st) ==
    /\ Running
    /\ src[id].status \in {"none", "active", "inactive"}
    /\ src[id].ver < MaxVer
    /\ src' = [src EXCEPT ![id] = [status |-> st, ver |-> src[id].ver + 1,
                                   age |-> IF st = "active" THEN 0 ELSE AgeCap]]
    /\ Notify([operation |-> IF src[id].status = "none" THEN "INSERT" ELSE "UPDATE",
               id |-> id, ver |-> src[id].ver + 1, status |-> st])
    /\ lastStep' = Quiet
    /\ UNCHANGED <<dest, isListening, handlers, pendingRejections,
                   isSyncInProgress, scheduledSyncTimeout, timers, passes,
                   schedulerStarts, storeFaults, unitVars, errorLog, deleteHandled,
                   rtVars, lifeVars>>

\* the upstream application deletes a user row
SrcDelete(id) ==
    /\ Running
    /\ src[id].status \in {"active", "inactive"}
    /\ src' = [src EXCEPT ![id] = [status |-> "deleted", ver |-> 0, age |-> AgeCap]]
    /\ Notify([operation |-> "DELETE", id |-> id, ver |-> 0, status |-> "deleted"])
    /\ lastStep' = Quiet
    /\ UNCHANGED <<dest, isListening, handlers, pendingRejections,
                   isSyncInProgress, scheduledSyncTimeout, timers, passes,
                   schedulerStarts, storeFaults, unitVars, errorLog, deleteHandled,
                   rtVars, lifeVars>>

\* the destination system writes the presence columns of a user's row: the
\* user is online on a socket, or has gone offline and was last seen
PresenceWrite(id) ==
    /\ Running
    /\ \E r \in dest, online \in BOOLEAN :
          /\ r.externalId = id
          /\ LET w == [r EXCEPT !.socketId = IF online THEN 1 ELSE 0,
                                !.isOnline = online, !.lastSeen = 1]
             IN  /\ w # r
                 /\ dest' = (dest \ {r}) \cup {w}
    /\ lastStep' = {Event("presence", id)}
    /\ UNCHANGED <<src, isListening, channel, handlers, pendingRejections,
                   isSyncInProgress, scheduledSyncTimeout, timers, passes,
                   schedulerStarts, storeFaults, unitVars, errorLog, deleteHandled,
                   rtVars, lifeVars>>

\* ---------------------------------------------------------- batch pass
\* a pass about to issue its first page query.  successCount and errorCount are
\* the counters bulkSyncUsers keeps for the page it is processing.
NewPass(kind, limit) ==
    [kind |-> kind, limit |-> limit, elapsed |-> 0, offset |-> 0, users |-> <<>>,
     pageLen |-> 0, attempt |-> 0, calls |-> 0, successCount |-> 0, errorCount |-> 0]

\* process.exit(code)
Exit(code) ==
    /\ shutdownPc' = "exited"
    /\ exitCode' = code

\* the order of the steps of setup
SchedulerBeforeListener == <<"sync", "scheduler", "listener", "connecting", "verify", "done">>

\* setup: initial bulk sync, startRealTimeSync, startScheduledSync,
\* verifySyncStatus, then startHttpServer and setupGracefulShutdown
SetupOrder == <<"sync", "listener", "connecting", "scheduler", "verify", "done">>

\* the step of setup that follows step pc
SetupNext(pc) ==
    SetupOrder[1 + CHOOSE i \in 1..Len(SetupOrder) : SetupOrder[i] = pc]

\* the catch block of setup: logError('SETUP_FAILED'), process.exit(1)
SetupFailed ==
    /\ setupPc' = "failed"
    /\ Exit(1)
    /\ UNCHANGED <<httpServer, shutdownReason, waited, poolsOpen, statsReported>>

\* a catch block that gives up the rows left in the page
AbandonPage(rest) == <<>>

\* the catch block around a row's upsert: the for loop goes on with the rows left
AfterRowFailure(rest) == rest

\* a trigger that does not test the mutex
NeverRunning == FALSE

\* if (this.isSyncInProgress): the mutex test of a trigger
PreviousSyncRunning == isSyncInProgress

\* a finally block that arms the next trigger and leaves the mutex as it is
LeaveMutexHeld(p) ==
    /\ passes' = passes \ {p}
    /\ isSyncInProgress' = isSyncInProgress
    /\ scheduleNextSync(timers)

\* the finally block of a pass: release the mutex and arm the next trigger
EndPass(p) ==
    /\ passes' = passes \ {p}
    /\ isSyncInProgress' = FALSE
    /\ scheduleNextSync(timers)

\* a scheduler timer fires: runScheduledSync (the first) or runScheduledSyncCycle,
\* up to the first await of the pass
TimerFire(t) ==
    /\ Running
    /\ t \in timers
    /\ t.rem = 0
    /\ IF PreviousSyncRunning
       THEN /\ scheduleNextSync(timers \ {t})
            /\ lastStep' = {Event("skipped", 0)}
            /\ UNCHANGED <<isSyncInProgress, passes>>
       ELSE /\ isSyncInProgress' = TRUE
            /\ passes' = passes \cup
                  {NewPass("scheduled", PageLimit)}
            /\ timers' = timers \ {t}
            /\ scheduledSyncTimeout' =
                  IF scheduledSyncTimeout = t.h THEN -1 ELSE scheduledSyncTimeout
            /\ lastStep' = Quiet
    /\ UNCHANGED <<src, dest, isListening, channel, handlers, pendingRejections,
                   schedulerStarts, storeFaults, unitVars, errorLog, deleteHandled,
                   rtVars, lifeVars>>

\* the end of a pass.  A scheduled pass runs its trigger's finally block; after
\* setup's initial sync setup goes on to start the listener, and a query that
\* failed is rethrown into setup's catch block.
PassEnds(p, failed) ==
    IF p.kind = "setup"
    THEN /\ passes' = passes \ {p}
         /\ UNCHANGED <<isSyncInProgress, scheduledSyncTimeout, timers>>
         /\ IF failed
            THEN SetupFailed
            ELSE /\ setupPc' = SetupNext(setupPc)
                 /\ UNCHANGED <<httpServer, shutdownPc, shutdownReason, waited,
                                poolsOpen, statsReported, exitCode>>
    ELSE /\ EndPass(p)
         /\ UNCHANGED lifeVars

\* a pass that asks for no second page
OnePageOnly(pageLen, limit) == FALSE

\* return users.length === limit: whether the pass asks for the next page
HasMore(pageLen, limit) == pageLen = limit

\* bulkSyncUsers, the page query: await this.sourcePool.query(query, queryParams),
\* called once.  A failure is logged (BULK_SYNC_FAILED), rethrown, caught by the
\* pass (SCHEDULED_SYNC_FAILED) or by setup (SETUP_FAILED) and ends it; an empty
\* page ends the pass.
PassPageQuery(p) ==
    /\ Running
    /\ p \in passes
    /\ p.users = <<>>
    /\ \E ok \in Outcomes :
          IF ~ok
          THEN /\ errorLog' = errorLog \cup
                     {"BULK_SYNC_FAILED",
                      IF p.kind = "setup" THEN "SETUP_FAILED" ELSE "SCHEDULED_SYNC_FAILED"}
               /\ PassEnds(p, TRUE)
               /\ lastStep' = {Event("aborted", 1)}
          ELSE /\ \E page \in PageQuery(p) :
                    IF page = <<>>
                    THEN /\ PassEnds(p, FALSE)
                         /\ lastStep' = {Event("completed", p.elapsed),
                                         Event("lastOffset", p.offset)}
                    ELSE /\ passes' = (passes \ {p}) \cup
                               {[p EXCEPT !.users = page, !.pageLen = Len(page),
                                          !.attempt = 0, !.calls = 0,
                                          !.successCount = 0, !.errorCount = 0]}
                         /\ lastStep' = Quiet
                         /\ UNCHANGED <<isSyncInProgress, scheduledSyncTimeout, timers,
                                        lifeVars>>
               /\ UNCHANGED errorLog
    /\ UNCHANGED <<src, dest, isListening, channel, handlers, pendingRejections,
                   schedulerStarts, storeFaults, unitVars, deleteHandled, rtVars>>

\* bulkSyncUsers, one attempt of retryWithBackoff for the next row of the page:
\* the upsert into the chat store.  A row whose retries are exhausted is logged
\* (BULK_SYNC_USER_FAILED) and counted, and the loop goes on.  The row after the
\* last one ends the page: a full page asks for the next offset, a short one
\* ends the pass.
PassUpsert(p) ==
    /\ Running
    /\ p \in passes
    /\ p.users # <<>>
    /\ \E ok \in Outcomes :
          LET calls == p.calls + 1
              retry == ~ok /\ RetryLoopContinues(p.attempt + 1)
              thrown == ~ok /\ ~retry
              rest == IF thrown THEN AfterRowFailure(Tail(p.users)) ELSE Tail(p.users)
              successCount == IF ok THEN p.successCount + 1 ELSE p.successCount
              errorCount == IF thrown THEN p.errorCount + 1 ELSE p.errorCount
              pageDone == ~retry /\ rest = <<>>
              ends == pageDone /\ ~HasMore(p.pageLen, p.limit)
          IN  /\ dest' = IF ok THEN UpsertQuery(dest, transformUserData(Head(p.users)))
                         ELSE dest
              /\ errorLog' = IF thrown
                             THEN errorLog \cup {"BULK_SYNC_USER_FAILED"} ELSE errorLog
              /\ lastStep' = (IF thrown THEN {Event("exhausted", calls)} ELSE {})
                             \cup (IF ok
                                   THEN UpsertEvents(dest, transformUserData(Head(p.users)))
                                   ELSE {})
                             \cup (IF pageDone
                                   THEN {Event("pageRows", p.pageLen),
                                         Event("pageSynced", successCount),
                                         Event("pageFailed", errorCount)}
                                   ELSE {})
                             \cup (IF ends
                                   THEN {Event("completed", p.elapsed),
                                         Event("lastOffset", p.offset)}
                                   ELSE {})
              /\ IF ends
                 THEN PassEnds(p, FALSE)
                 ELSE /\ passes' = (passes \ {p}) \cup
                            {IF retry
                             THEN [p EXCEPT !.attempt = @ + 1, !.calls = calls]
                             ELSE IF rest # <<>>
                             THEN [p EXCEPT !.users = rest, !.attempt = 0, !.calls = 0,
                                            !.successCount = successCount,
                                            !.errorCount = errorCount]
                             ELSE [p EXCEPT !.users = <<>>, !.offset = @ + p.limit,
                                            !.attempt = 0, !.calls = 0,
                                            !.successCount = 0, !.errorCount = 0]}
                      /\ UNCHANGED <<isSyncInProgress, scheduledSyncTimeout, timers,
                                     lifeVars>>
    /\ UNCHANGED <<src, isListening, channel, handlers, pendingRejections,
                   schedulerStarts, storeFaults, unitVars, deleteHandled, rtVars>>

\* ----------------------------------------------------- real-time path
\* a success path that leaves the attempt counter as it is
KeepAttempts(n) == n

\* this.realtimeReconnectAttempts = 0; // Reset on successful connection
ResetOnConnect(n) == 0

\* the end of startRealTimeSync's try block, after connect, trigger provisioning
\* and LISTEN succeeded: the handlers are attached and the flags set
ListenSucceeded ==
    /\ isListening' = TRUE
    /\ realtimeClient' = "listening"
    /\ realtimeReconnectAttempts' = ResetOnConnect(realtimeReconnectAttempts)

\* if (this.realtimeReconnectAttempts >= this.maxReconnectAttempts)
ReconnectBudgetSpent == realtimeReconnectAttempts >= maxReconnectAttempts

\* attemptRealtimeReconnection: give up when the budget is spent, else count the
\* attempt and arm a timer that calls startRealTimeSync; the handle replaces
\* this.realtimeReconnectTimeout and a timer already pending is not cleared
AttemptRealtimeReconnection ==
    IF ReconnectBudgetSpent
    THEN UNCHANGED <<realtimeReconnectAttempts, reconnectTimers, realtimeReconnectTimeout>>
    ELSE LET h == Min((1..MaxReconnectTimers) \ reconnectTimers)
         IN  /\ realtimeReconnectAttempts' = realtimeReconnectAttempts + 1
             /\ reconnectTimers' = reconnectTimers \cup {h}
             /\ realtimeReconnectTimeout' = h

\* what attemptRealtimeReconnection reports of itself
ReconnectionEvents ==
    IF ReconnectBudgetSpent THEN {Event("givenUp", realtimeReconnectAttempts)}
    ELSE {Event("scheduled", realtimeReconnectAttempts + 1)}

\* a timer handle is left for the reconnection a call in flight may request
ReconnectRoom == Cardinality(reconnectTimers) + connecting < MaxReconnectTimers

\* a call of startRealTimeSync in which connect, trigger provisioning and
\* LISTEN all succeed
StartRealTimeSync ==
    /\ Running
    /\ shutdownPc = "none"
    /\ ~isListening
    /\ ListenSucceeded
    /\ lastStep' = {Event("listening", realtimeReconnectAttempts)}
    /\ UNCHANGED <<src, dest, channel, handlers, pendingRejections,
                   isSyncInProgress, scheduledSyncTimeout, timers, passes,
                   schedulerStarts, storeFaults, unitVars, errorLog, deleteHandled,
                   realtimeReconnectTimeout, reconnectTimers, connecting, lifeVars>>

\* the client emits 'error': the handler clears isListening and asks for a
\* reconnection, whatever the state of the listener.  A client can emit it more
\* than once.
ClientError ==
    /\ Running
    /\ realtimeClient \in {"listening", "broken"}
    /\ ReconnectRoom
    /\ isListening' = FALSE
    /\ realtimeClient' = "broken"
    /\ AttemptRealtimeReconnection
    /\ lastStep' = ReconnectionEvents
    /\ UNCHANGED <<src, dest, channel, handlers, pendingRejections,
                   isSyncInProgress, scheduledSyncTimeout, timers, passes,
                   schedulerStarts, storeFaults, unitVars, errorLog, deleteHandled,
                   connecting, lifeVars>>

\* the client emits 'end': the handler asks for a reconnection only if
\* isListening is still set
ClientEnd ==
    /\ Running
    /\ realtimeClient \in {"listening", "broken"}
    /\ ReconnectRoom
    /\ realtimeClient' = "ended"
    /\ IF isListening
       THEN /\ isListening' = FALSE
            /\ AttemptRealtimeReconnection
            /\ lastStep' = ReconnectionEvents
       ELSE /\ lastStep' = Quiet
            /\ UNCHANGED <<isListening, realtimeReconnectAttempts, reconnectTimers,
                           realtimeReconnectTimeout>>
    /\ UNCHANGED <<src, dest, channel, handlers, pendingRejections,
                   isSyncInProgress, scheduledSyncTimeout, timers, passes,
                   schedulerStarts, storeFaults, unitVars, errorLog, deleteHandled,
                   connecting, lifeVars>>

\* a reconnection timer fires and calls startRealTimeSync, up to its first
\* await: it returns at once if the listener is active, else it ends the old
\* client and starts connecting a new one
ReconnectTimerFire(h) ==
    /\ Running
    /\ h \in reconnectTimers
    /\ reconnectTimers' = reconnectTimers \ {h}
    /\ realtimeReconnectTimeout' =
          IF realtimeReconnectTimeout = h THEN -1 ELSE realtimeReconnectTimeout
    /\ IF isListening
       THEN UNCHANGED <<connecting, realtimeClient>>
       ELSE /\ connecting' = connecting + 1
            /\ realtimeClient' = "bare"
    /\ lastStep' = Quiet
    /\ UNCHANGED <<src, dest, isListening, channel, handlers, pendingRejections,
                   isSyncInProgress, scheduledSyncTimeout, timers, passes,
                   schedulerStarts, storeFaults, unitVars, errorLog, deleteHandled,
                   realtimeReconnectAttempts, lifeVars>>

\* the outcome of a startRealTimeSync called by a reconnection timer: success,
\* or the catch block: logError('REALTIME_SYNC_START_FAILED'),
\* attemptRealtimeReconnection, and a rethrow the timer callback logs
ConnectFinish ==
    /\ Running
    /\ connecting > 0
    /\ connecting' = connecting - 1
    /\ \E ok \in Outcomes :
          IF ok
          THEN /\ ListenSucceeded
               /\ lastStep' = {Event("listening", realtimeReconnectAttempts)}
               /\ UNCHANGED <<reconnectTimers, realtimeReconnectTimeout, errorLog>>
          ELSE /\ errorLog' = errorLog \cup {"REALTIME_SYNC_START_FAILED"}
               /\ AttemptRealtimeReconnection
               /\ lastStep' = ReconnectionEvents
               /\ UNCHANGED <<isListening, realtimeClient>>
    /\ UNCHANGED <<src, dest, channel, handlers, pendingRejections,
                   isSyncInProgress, scheduledSyncTimeout, timers, passes,
                   schedulerStarts, storeFaults, unitVars, deleteHandled, lifeVars>>

\* another session NOTIFYs the channel with a payload that is not JSON
MalformedNotify ==
    /\ Running
    /\ isListening
    /\ Len(channel) < MaxChannel
    /\ channel' = Append(channel, [operation |-> "MALFORMED", id |-> 0, ver |-> 0,
                                   status |-> "none"])
    /\ lastStep' = Quiet
    /\ UNCHANGED <<src, dest, isListening, handlers, pendingRejections,
                   isSyncInProgress, scheduledSyncTimeout, timers, passes,
                   schedulerStarts, storeFaults, unitVars, errorLog, deleteHandled,
                   rtVars, lifeVars>>

\* The catch block of the notification handler:
\*   catch (error) { await this.logError('REALTIME_NOTIFICATION_FAILED',
\*                                       payload?.data?.id || payload?.id, error); }
\* `payload` is declared with const inside the try block and is not in scope in
\* the catch block: evaluating the argument throws ReferenceError before logError
\* is called, and the handler's promise rejects.
NotificationCatch == [logged |-> {}, rejected |-> TRUE]

\* a handler that upserts whatever the status
UpsertAnyStatus(msg) == TRUE

\* } else if (payload.data && payload.data.status === 'active') {
ShouldUpsert(msg) == msg.status = "active"

\* the client emits 'notification': the handler runs up to its first await;
\* room is the number of handler invocations that may be in flight at once
DeliverWithRoom(room) ==
    /\ Running
    /\ channel # <<>>
    /\ Cardinality(handlers) < room
    /\ pendingRejections < room
    /\ channel' = Tail(channel)
    /\ LET msg == Head(channel)
           slot == Min((1..room) \ {h.slot : h \in handlers})
       IN  IF msg.operation = "MALFORMED"
           THEN /\ errorLog' = errorLog \cup NotificationCatch.logged
                /\ pendingRejections' =
                      IF NotificationCatch.rejected THEN pendingRejections + 1
                      ELSE pendingRejections
                /\ lastStep' = {Event(IF NotificationCatch.rejected THEN "raised"
                                      ELSE "caught", 0)}
                /\ UNCHANGED handlers
           ELSE IF msg.operation = "DELETE" \/ ShouldUpsert(msg)
           THEN /\ handlers' = handlers \cup
                      {[slot |-> slot,
                        kind |-> IF msg.operation = "DELETE" THEN "delete" ELSE "upsert",
                        id |-> msg.id, ver |-> msg.ver, status |-> msg.status,
                        attempt |-> 0, calls |-> 0]}
                /\ lastStep' = Quiet
                /\ UNCHANGED <<errorLog, pendingRejections>>
           ELSE /\ lastStep' = {Event("ignored", msg.id)}
                /\ UNCHANGED <<handlers, errorLog, pendingRejections>>
    /\ UNCHANGED <<src, dest, isListening, isSyncInProgress,
                   scheduledSyncTimeout, timers, passes, schedulerStarts,
                   storeFaults, unitVars, deleteHandled,
                   rtVars, lifeVars>>

\* the client emits 'notification'
Deliver == DeliverWithRoom(MaxHandlers)

\* a notification emitted while the handler of an earlier one is in flight
DeliverConcurrently == DeliverWithRoom(MaxHandlers + 1)

\* one attempt of retryWithBackoff inside upsertUser or deleteUserFromChat.
\* Exhausted retries: deleteUserFromChat logs DELETE_USER_FAILED and returns;
\* upsertUser logs UPSERT_USER_FAILED and rethrows into the handler's catch.
HandlerQuery(h) ==
    /\ Running
    /\ h \in handlers
    /\ \E ok \in Outcomes :
          LET calls == h.calls + 1
              retry == ~ok /\ RetryLoopContinues(h.attempt + 1)
              thrown == ~ok /\ ~retry
              caught == thrown /\ h.kind = "upsert"
          IN  /\ dest' = IF ~ok THEN dest
                         ELSE IF h.kind = "delete" THEN DeleteQuery(dest, h.id)
                         ELSE UpsertQuery(dest, transformUserData(h))
              /\ handlers' = IF retry
                             THEN (handlers \ {h}) \cup
                                  {[h EXCEPT !.attempt = @ + 1, !.calls = calls]}
                             ELSE handlers \ {h}
              /\ errorLog' = errorLog \cup
                    (IF ~thrown THEN {}
                     ELSE IF h.kind = "delete" THEN {"DELETE_USER_FAILED"}
                     ELSE {"UPSERT_USER_FAILED"} \cup NotificationCatch.logged)
              /\ pendingRejections' =
                    IF caught /\ NotificationCatch.rejected THEN pendingRejections + 1
                    ELSE pendingRejections
              /\ deleteHandled' = IF ok /\ h.kind = "delete"
                                  THEN deleteHandled \cup {h.id} ELSE deleteHandled
              /\ lastStep' =
                    (IF thrown THEN {Event("exhausted", calls)} ELSE {})
                    \cup (IF ok /\ h.kind = "delete"
                          THEN {Event("deleted", h.id),
                                Event("deletedRows", RowsMatching(dest, h.id))}
                          ELSE IF ok THEN UpsertEvents(dest, transformUserData(h))
                          ELSE {})
                    \cup (IF ~caught THEN {}
                          ELSE IF NotificationCatch.rejected THEN {Event("raised", 0)}
                          ELSE {Event("caught", 0)})
    /\ UNCHANGED <<src, isListening, channel, isSyncInProgress,
                   scheduledSyncTimeout, timers, passes, schedulerStarts,
                   storeFaults, unitVars,
                   rtVars, lifeVars>>

\* ------------------------------------------------------------ shutdown
\* shutdown(), from the end of its wait to its next await: this.isListening =
\* false, then the first of realtimeClient.end(), httpServer.close and the
\* pools' end() that applies
AfterWait ==
    /\ isListening' = FALSE
    /\ shutdownPc' = IF realtimeClient # "none" THEN "closingClient"
                     ELSE IF httpServer THEN "closingHttp" ELSE "closingPools"

\* shutdown(signal) up to its first await: clear the timers the two timeout
\* fields name, then wait for a pass in flight or start closing
ShutdownBegin(signal) ==
    /\ timers' = IF scheduledSyncTimeout # 0
                 THEN ClearTimeout(timers, scheduledSyncTimeout) ELSE timers
    /\ scheduledSyncTimeout' = IF scheduledSyncTimeout # 0 THEN -1 ELSE 0
    /\ reconnectTimers' = reconnectTimers \ {realtimeReconnectTimeout}
    /\ realtimeReconnectTimeout' = IF realtimeReconnectTimeout # 0 THEN -1 ELSE 0
    /\ shutdownReason' = signal
    /\ waited' = 0
    /\ IF isSyncInProgress
       THEN /\ shutdownPc' = "waiting"
            /\ UNCHANGED isListening
       ELSE AfterWait
    /\ UNCHANGED <<setupPc, httpServer, poolsOpen, statsReported, exitCode,
                   realtimeReconnectAttempts, connecting, realtimeClient>>

\* setupGracefulShutdown has installed the process handlers: setup has reached
\* its last statement, or the service is driven without setup
HandlersInstalled == setupPc \in {"none", "done"}

\* process.on('unhandledRejection'): logError, then shutdown()
UnhandledRejection ==
    /\ Running
    /\ HandlersInstalled
    /\ pendingRejections > 0
    /\ pendingRejections' = pendingRejections - 1
    /\ errorLog' = errorLog \cup {"UNHANDLED_REJECTION"}
    /\ ShutdownBegin("UNHANDLED_REJECTION")
    /\ lastStep' = Quiet
    /\ UNCHANGED <<src, dest, channel, handlers, isSyncInProgress,
                   passes, schedulerStarts, storeFaults, unitVars, deleteHandled>>

\* process.on('uncaughtException'): logError, then shutdown()
UncaughtException ==
    /\ Running
    /\ HandlersInstalled
    /\ shutdownPc = "none"
    /\ errorLog' = errorLog \cup {"UNCAUGHT_EXCEPTION"}
    /\ ShutdownBegin("UNCAUGHT_EXCEPTION")
    /\ lastStep' = Quiet
    /\ UNCHANGED <<src, dest, channel, handlers, pendingRejections, isSyncInProgress,
                   passes, schedulerStarts, storeFaults, unitVars, deleteHandled>>

\* process.on('SIGINT') and process.on('SIGTERM'): shutdown()
ShutdownSignal ==
    /\ Running
    /\ HandlersInstalled
    /\ shutdownPc = "none"
    /\ ShutdownBegin("SIGTERM")
    /\ lastStep' = Quiet
    /\ UNCHANGED <<src, dest, channel, handlers, pendingRejections, isSyncInProgress,
                   passes, schedulerStarts, storeFaults, unitVars, errorLog, deleteHandled>>

\* a wait loop that goes on while the pass runs, whatever the time
WaitForPass(n) == TRUE

\* (Date.now() - startWait) < maxWait, after n sleeps of one second
WaitBudgetLeft(n) == n < MaxWaitPolls

\* shutdown's wait loop: a sleep(1000) returns and the loop condition is tested
ShutdownPoll ==
    /\ shutdownPc = "waiting"
    /\ waited' = waited + 1
    /\ IF isSyncInProgress /\ WaitBudgetLeft(waited + 1)
       THEN UNCHANGED <<shutdownPc, isListening>>
       ELSE AfterWait
    /\ lastStep' = Quiet
    /\ UNCHANGED <<src, dest, channel, handlers, pendingRejections, isSyncInProgress,
                   scheduledSyncTimeout, timers, passes, schedulerStarts, storeFaults, unitVars,
                   errorLog, deleteHandled, rtVars, setupPc, httpServer,
                   shutdownReason, poolsOpen, statsReported, exitCode>>

\* shutdown: await this.realtimeClient.end() settles; a rejection is logged and
\* shutdown goes on as it does after a fulfilment
ClientEnded ==
    /\ shutdownPc = "closingClient"
    /\ realtimeClient' = "ended"
    /\ shutdownPc' = IF httpServer THEN "closingHttp" ELSE "closingPools"
    /\ lastStep' = Quiet
    /\ UNCHANGED <<src, dest, isListening, channel, handlers, pendingRejections,
                   isSyncInProgress, scheduledSyncTimeout, timers, passes,
                   schedulerStarts, storeFaults, unitVars, errorLog, deleteHandled,
                   realtimeReconnectAttempts, realtimeReconnectTimeout, reconnectTimers,
                   connecting, setupPc, httpServer, shutdownReason, waited, poolsOpen,
                   statsReported, exitCode>>

\* a call of startHttpServer
StartHttpServer ==
    /\ Running
    /\ shutdownPc = "none"
    /\ ~httpServer
    /\ httpServer' = TRUE
    /\ lastStep' = Quiet
    /\ UNCHANGED <<src, dest, isListening, channel, handlers, pendingRejections,
                   isSyncInProgress, scheduledSyncTimeout, timers, passes,
                   schedulerStarts, storeFaults, unitVars, errorLog, deleteHandled, rtVars,
                   setupPc, shutdownPc, shutdownReason, waited, poolsOpen,
                   statsReported, exitCode>>

\* shutdown: the callback of this.httpServer.close runs
HttpClosed ==
    /\ shutdownPc = "closingHttp"
    /\ httpServer' = FALSE
    /\ shutdownPc' = "closingPools"
    /\ lastStep' = Quiet
    /\ UNCHANGED <<src, dest, isListening, channel, handlers, pendingRejections,
                   isSyncInProgress, scheduledSyncTimeout, timers, passes,
                   schedulerStarts, storeFaults, unitVars, errorLog, deleteHandled, rtVars,
                   setupPc, shutdownReason, waited, poolsOpen, statsReported, exitCode>>

\* process.exit(0) at the end of shutdown's try block
ExitStatus(signal) == 0

\* shutdown: Promise.all of the pools' end() settles.  Fulfilled: the final
\* statistics are logged and the process exits with ExitStatus; rejected: the
\* catch block logs the error and exits with 1.
ShutdownExit ==
    /\ shutdownPc = "closingPools"
    /\ \E ok \in Outcomes :
          /\ poolsOpen' = ~ok
          /\ statsReported' = ok
          /\ Exit(IF ok THEN ExitStatus(shutdownReason) ELSE 1)
    /\ channel' = <<>>
    /\ lastStep' = Quiet
    /\ UNCHANGED <<src, dest, isListening, handlers, pendingRejections, isSyncInProgress,
                   scheduledSyncTimeout, timers, passes, schedulerStarts,
                   storeFaults, unitVars, errorLog, deleteHandled, rtVars, setupPc, httpServer,
                   shutdownReason, waited>>

\* ------------------------------------------------------------- backoff
\* this.retryConfig when the environment sets nothing
DefaultRetryConfig ==
    [initialDelayMs |-> initialDelayMs, maxDelayMs |-> maxDelayMs,
     backoffMultiplier |-> backoffMultiplier]

\* retry settings the environment may give, with whole multipliers
RetryConfigs ==
    {[initialDelayMs |-> initialDelayMs * i, maxDelayMs |-> maxDelayMs \div d,
      backoffMultiplier |-> m] :
        i \in 1..MaxDelayScale, d \in 1..MaxDelayScale,
        m \in backoffMultiplier..MaxMultiplier}

\* Math.pow(b, e) for a whole exponent
RECURSIVE Pow(_, _)
Pow(b, e) == IF e = 0 THEN 1 ELSE b * Pow(b, e - 1)

\* an exponent that counts the first wait as one multiplication
ExponentFromAttempt(attempt) == attempt

\* the exponent of the multiplier: attempt - 1
BackoffExponent(attempt) == attempt - 1

\* Math.min(initialDelayMs * Math.pow(backoffMultiplier, attempt - 1), maxDelayMs)
BackoffDelay(config, attempt) ==
    LET grown == config.initialDelayMs
                    * Pow(config.backoffMultiplier, BackoffExponent(attempt))
    IN  IF grown < config.maxDelayMs THEN grown ELSE config.maxDelayMs

\* retryWithBackoff: the wait before retry number attempt (attempt > 0)
RetryBackoff(attempt) ==
    /\ Running
    /\ attempt \in 1..maxRetries
    /\ backoffCall' = [fn |-> "retryWithBackoff", attempt |-> attempt,
                       delay |-> BackoffDelay(retryConfig, attempt)]
    /\ lastStep' = Quiet
    /\ UNCHANGED <<src, dest, isListening, channel, handlers, pendingRejections,
                   isSyncInProgress, scheduledSyncTimeout, timers, passes,
                   schedulerStarts, storeFaults, errorLog, deleteHandled, rtVars,
                   lifeVars, syncStats, health, retryConfig, transformCall,
                   previousTransform, roleCall, clientVars,
                   logErrorCalls, placeholderCall>>

\* attemptRealtimeReconnection: the delay of the timer, with attempt the
\* counter after its increment
ReconnectBackoff(attempt) ==
    /\ Running
    /\ attempt \in 1..maxReconnectAttempts
    /\ backoffCall' = [fn |-> "attemptRealtimeReconnection", attempt |-> attempt,
                       delay |-> BackoffDelay(retryConfig, attempt)]
    /\ lastStep' = Quiet
    /\ UNCHANGED <<src, dest, isListening, channel, handlers, pendingRejections,
                   isSyncInProgress, scheduledSyncTimeout, timers, passes,
                   schedulerStarts, storeFaults, errorLog, deleteHandled, rtVars,
                   lifeVars, syncStats, health, retryConfig, transformCall,
                   previousTransform, roleCall, clientVars,
                   logErrorCalls, placeholderCall>>

\* ------------------------------------------------------ transformation
\* the first seven hex characters of the sampled ids, as digit values:
\* 0000000, 3b9aca0 (16 * 0x3b9aca0 is 10^9) and fffffff
HexPrefixes ==
    {<<0, 0, 0, 0, 0, 0, 0>>, <<3, 11, 9, 10, 12, 10, 0>>,
     <<15, 15, 15, 15, 15, 15, 15>>}

\* userId.replace(/-/g, '').substring(0, 8) of the sampled ids: eight hex
\* characters as digit values (the first group of a uuid)
HexIds == {prefix \o <<last>> : prefix \in HexPrefixes, last \in 0..MaxLastDigit}

\* source phones: null, or a string as the sequence of its characters
PhoneTexts ==
    {<<>>, <<" ">>, <<"-", " ">>, <<"+", "5", " ", "0", "5">>}
SourcePhones ==
    {[isNull |-> TRUE, text |-> <<>>]}
        \cup {[isNull |-> FALSE, text |-> t] : t \in PhoneTexts}

\* source rows as transformUserData reads them; "null" stands for null
SourceUsers ==
    [id : HexIds, phone : SourcePhones, email : {"null", "x@y.com"},
     email_verified : {"true", "false", "null"}]

\* no call yet
NoTransform ==
    [called |-> FALSE,
     source |-> [id |-> <<>>, phone |-> [isNull |-> TRUE, text |-> <<>>],
                 email |-> "null", email_verified |-> "null"],
     phone |-> <<>>, email |-> "null"]

\* what a later call is compared with: the id and the phones of a call
PhoneOf(call) ==
    [called |-> call.called, id |-> call.source.id,
     sourcePhone |-> call.source.phone, phone |-> call.phone]

\* the digit characters
DigitChar == <<"0", "1", "2", "3", "4", "5", "6", "7", "8", "9">>
IsDigit(c) == \E i \in 1..Len(DigitChar) : DigitChar[i] = c

\* Number.prototype.toString() of a whole number n >= 0
RECURSIVE DecimalString(_)
DecimalString(n) ==
    IF n < 10 THEN <<DigitChar[n + 1]>>
    ELSE DecimalString(n \div 10) \o <<DigitChar[(n % 10) + 1]>>

\* parseInt(hexPart, 16) of the first n characters
RECURSIVE ParseHex(_, _)
ParseHex(hex, n) == IF n = 0 THEN 0 ELSE 16 * ParseHex(hex, n - 1) + hex[n]

\* parseInt(hexPart, 16).toString(): the value is 16 * high + low with high
\* the value of the first seven characters; its decimal digits are taken
\* from high and low so that every intermediate stays below 2^31
HexToDecimalString(hex) ==
    LET high == ParseHex(hex, Len(hex) - 1)
        low == hex[Len(hex)]
        units == 16 * (high % 10) + low
        tens == 16 * (high \div 10) + (units \div 10)
    IN  IF tens = 0 THEN <<DigitChar[(units % 10) + 1]>>
        ELSE DecimalString(tens) \o <<DigitChar[(units % 10) + 1]>>

\* String.prototype.substring(0, n)
Substring(str, n) == SubSeq(str, 1, IF Len(str) < n THEN Len(str) ELSE n)

\* String.prototype.padStart(n, '0')
RECURSIVE PadStart(_, _)
PadStart(str, n) == IF Len(str) >= n THEN str ELSE PadStart(<<"0">> \o str, n)

\* `9${parseInt(hexPart, 16).toString().substring(0, 9).padStart(9, '0')}`
PlaceholderPhone(hexPart) ==
    <<"9">> \o PadStart(Substring(HexToDecimalString(hexPart), 9), 9)

\* phone.trim() === ''
IsBlank(text) == \A i \in 1..Len(text) : text[i] = " "

\* the cleaned phone returned even when no character is left
CleanedOrEmpty(phone, hexPart) ==
    IF phone.isNull \/ IsBlank(phone.text) THEN PlaceholderPhone(hexPart)
    ELSE SelectSeq(phone.text, IsDigit)

\* sanitizePhone(phone, userId), with userId given by its hex part
sanitizePhone(phone, hexPart) ==
    IF phone.isNull \/ IsBlank(phone.text) THEN PlaceholderPhone(hexPart)
    ELSE LET cleaned == SelectSeq(phone.text, IsDigit)
         IN  IF cleaned = <<>> THEN PlaceholderPhone(hexPart) ELSE cleaned

\* the email passed whatever the flag
AnyEmail(sourceUser) == sourceUser.email

\* sourceUser.email_verified ? sourceUser.email : null
VerifiedEmail(sourceUser) ==
    IF sourceUser.email_verified = "true" THEN sourceUser.email ELSE "null"

\* transformUserData: the contact fields of the transformed record
TransformUserData(sourceUser) ==
    /\ Running
    /\ transformCall' = [called |-> TRUE, source |-> sourceUser,
                         phone |-> sanitizePhone(sourceUser.phone, sourceUser.id),
                         email |-> VerifiedEmail(sourceUser)]
    /\ previousTransform' = PhoneOf(transformCall)
    /\ lastStep' = Quiet
    /\ UNCHANGED <<src, dest, isListening, channel, handlers, pendingRejections,
                   isSyncInProgress, scheduledSyncTimeout, timers, passes,
                   schedulerStarts, storeFaults, errorLog, deleteHandled, rtVars,
                   lifeVars, syncStats, health, retryConfig, backoffCall, roleCall, clientVars,
                   logErrorCalls, placeholderCall>>

\* ------------------------------------------------------------ mapRole
\* the letters, lower and upper case
LowerCase == <<"a", "b", "c", "d", "e", "f", "g", "h", "i", "j", "k", "l", "m", "n", "o", "p", "q", "r", "s",
               "t", "u", "v", "w", "x", "y", "z">>
UpperCase == <<"A", "B", "C", "D", "E", "F", "G", "H", "I", "J", "K", "L", "M", "N", "O", "P", "Q", "R", "S",
               "T", "U", "V", "W", "X", "Y", "Z">>

\* String.prototype.toUpperCase and toLowerCase of one character
ToUpperChar(c) ==
    IF \E i \in 1..Len(LowerCase) : LowerCase[i] = c
    THEN UpperCase[CHOOSE i \in 1..Len(LowerCase) : LowerCase[i] = c]
    ELSE c
ToLowerChar(c) ==
    IF \E i \in 1..Len(UpperCase) : UpperCase[i] = c
    THEN LowerCase[CHOOSE i \in 1..Len(UpperCase) : UpperCase[i] = c]
    ELSE c

\* String.prototype.toLowerCase
toLowerCase(text) == [i \in 1..Len(text) |-> ToLowerChar(text[i])]

\* the role strings sampled, in lower case, as sequences of characters
RoleNames ==
    {<<"c", "u", "s", "t", "o", "m", "e", "r">>,
     <<"s", "e", "r", "v", "i", "c", "e", "_", "p", "r", "o", "v", "i", "d", "e", "r">>,
     <<"p", "r", "o", "v", "i", "d", "e", "r">>,
     <<"a", "d", "m", "i", "n">>,
     <<"a", "d", "m", "i", "n", "i", "s", "t", "r", "a", "t", "o", "r">>,
     <<"s", "u", "p", "e", "r", "_", "a", "d", "m", "i", "n">>,
     <<"m", "o", "d", "e", "r", "a", "t", "o", "r">>,
     <<"u", "s", "t", "a">>,
     <<"g", "u", "e", "s", "t">>,
     <<"o", "w", "n", "e", "r">>,
     <<"u", "s", "e", "r">>,
     <<"t", "o", "s", "t", "r", "i", "n", "g">>,
     <<"v", "a", "l", "u", "e", "o", "f">>,
     <<"c", "o", "n", "s", "t", "r", "u", "c", "t", "o", "r">>,
     <<"_", "_", "p", "r", "o", "t", "o", "_", "_">>,
     <<>>}

\* a role string with the characters at the given positions in upper case
WithUpperCase(text, positions) ==
    [i \in 1..Len(text) |-> IF i \in positions THEN ToUpperChar(text[i]) ELSE text[i]]

\* source roles: null, or a sampled name in some mix of cases
SourceRoles ==
    {[isNull |-> TRUE, text |-> <<>>]}
        \cup {[isNull |-> FALSE, text |-> WithUpperCase(name, positions)] :
                name \in RoleNames, positions \in SUBSET (1..MaxCaseLetters)}

\* const roleMapping = { ... }: the own properties of the object literal
roleMapping ==
    {[key |-> <<"c", "u", "s", "t", "o", "m", "e", "r">>,
      value |-> "customer"],
     [key |-> <<"s", "e", "r", "v", "i", "c", "e", "_", "p", "r", "o", "v", "i", "d", "e", "r">>,
      value |-> "usta"],
     [key |-> <<"p", "r", "o", "v", "i", "d", "e", "r">>,
      value |-> "usta"],
     [key |-> <<"a", "d", "m", "i", "n">>,
      value |-> "administrator"],
     [key |-> <<"a", "d", "m", "i", "n", "i", "s", "t", "r", "a", "t", "o", "r">>,
      value |-> "administrator"],
     [key |-> <<"s", "u", "p", "e", "r", "_", "a", "d", "m", "i", "n">>,
      value |-> "administrator"]}

\* the properties every object literal inherits from Object.prototype; their
\* values are functions or objects, named here by what they are
ObjectPrototype ==
    {[key |-> <<"c", "o", "n", "s", "t", "r", "u", "c", "t", "o", "r">>,
      value |-> "function Object"],
     [key |-> <<"_", "_", "p", "r", "o", "t", "o", "_", "_">>,
      value |-> "Object.prototype"],
     [key |-> <<"t", "o", "S", "t", "r", "i", "n", "g">>,
      value |-> "function toString"],
     [key |-> <<"t", "o", "L", "o", "c", "a", "l", "e", "S", "t", "r", "i", "n", "g">>,
      value |-> "function toLocaleString"],
     [key |-> <<"v", "a", "l", "u", "e", "O", "f">>,
      value |-> "function valueOf"],
     [key |-> <<"h", "a", "s", "O", "w", "n", "P", "r", "o", "p", "e", "r", "t", "y">>,
      value |-> "function hasOwnProperty"],
     [key |-> <<"i", "s", "P", "r", "o", "t", "o", "t", "y", "p", "e", "O", "f">>,
      value |-> "function isPrototypeOf"],
     [key |-> <<"p", "r", "o", "p", "e", "r", "t", "y", "I", "s", "E", "n", "u", "m", "e", "r", "a", "b", "l", "e">>,
      value |-> "function propertyIsEnumerable"],
     [key |-> <<"_", "_", "d", "e", "f", "i", "n", "e", "G", "e", "t", "t", "e", "r", "_", "_">>,
      value |-> "function __defineGetter__"],
     [key |-> <<"_", "_", "d", "e", "f", "i", "n", "e", "S", "e", "t", "t", "e", "r", "_", "_">>,
      value |-> "function __defineSetter__"],
     [key |-> <<"_", "_", "l", "o", "o", "k", "u", "p", "G", "e", "t", "t", "e", "r", "_", "_">>,
      value |-> "function __lookupGetter__"],
     [key |-> <<"_", "_", "l", "o", "o", "k", "u", "p", "S", "e", "t", "t", "e", "r", "_", "_">>,
      value |-> "function __lookupSetter__"]}

\* object[key]: an own property, else an inherited one, else undefined
PropertyOf(object, key) ==
    IF \E p \in object : p.key = key
    THEN (CHOOSE p \in object : p.key = key).value
    ELSE IF \E p \in ObjectPrototype : p.key = key
         THEN (CHOOSE p \in ObjectPrototype : p.key = key).value
         ELSE "undefined"

\* roleMapping[sourceRole?.toLowerCase()] || 'customer'
mapRole(sourceRole) ==
    LET key == toLowerCase(sourceRole.text)
        found == IF sourceRole.isNull THEN PropertyOf(roleMapping, <<"u", "n", "d", "e", "f", "i", "n", "e", "d">>)
                 ELSE PropertyOf(roleMapping, key)
    IN  IF found = "undefined" THEN "customer" ELSE found

\* mapRole called by transformUserData for the role of a source row
MapRole(sourceRole) ==
    /\ Running
    /\ roleCall' = [called |-> TRUE, role |-> sourceRole, result |-> mapRole(sourceRole)]
    /\ lastStep' = Quiet
    /\ UNCHANGED <<src, dest, isListening, channel, handlers, pendingRejections,
                   isSyncInProgress, scheduledSyncTimeout, timers, passes,
                   schedulerStarts, storeFaults, errorLog, deleteHandled, rtVars,
                   lifeVars, syncStats, health, retryConfig, backoffCall,
                   transformCall, previousTransform, clientVars,
                   logErrorCalls, placeholderCall>>

\* ------------------------------------------------- the client objects
\* startRealTimeSync followed from await to await over the pg clients it
\* creates: `await this.realtimeClient.end()` of the old client, `new Client`,
\* `await this.realtimeClient.connect()`, the awaited queries (function,
\* trigger, LISTEN) and the attaching of the listeners, each on the client
\* this.realtimeClient names when the statement runs.
UnusedClients == {c \in 1..MaxClients : clientObjs[c].state = "unused"}

\* a call whose `await this.realtimeClient.end()` has resolved continues
\* before any timer or I/O callback runs
MicrotaskPending ==
    \E call \in startCalls :
        call.pc = "ending" /\ clientObjs[call.target].state = "ended"

\* timer handles are left for the reconnections that n more requests and the
\* calls in flight may arm
CallRoom(n) ==
    Cardinality(reconnectTimers) + Cardinality(startCalls) + n <= MaxReconnectTimers

\* a client is left for every call that will create one
ClientRoom ==
    Cardinality(UnusedClients) > Cardinality({call \in startCalls : call.pc = "ending"})

\* attemptRealtimeReconnection called n times in a row, as by the listeners of
\* one event: each call gives up when the budget is spent, else counts the
\* attempt and arms a timer whose handle replaces the stored one
RECURSIVE AttemptReconnections(_, _)
AttemptReconnections(st, n) ==
    IF n = 0 THEN st
    ELSE AttemptReconnections(
            IF st.attempts >= maxReconnectAttempts THEN st
            ELSE LET h == Min((1..MaxReconnectTimers) \ st.timers)
                 IN  [attempts |-> st.attempts + 1, timers |-> st.timers \cup {h},
                      timeout |-> h],
            n - 1)

ReconnectAfter(n) ==
    LET st == AttemptReconnections(
                  [attempts |-> realtimeReconnectAttempts, timers |-> reconnectTimers,
                   timeout |-> realtimeReconnectTimeout], n)
    IN  /\ realtimeReconnectAttempts' = st.attempts
        /\ reconnectTimers' = st.timers
        /\ realtimeReconnectTimeout' = st.timeout

\* startRealTimeSync up to its first await: return if the listener is active;
\* end the client this.realtimeClient names, if any; else create a client and
\* connect it
BeginStart ==
    LET slot == Min((1..MaxReconnectTimers) \ {call.slot : call \in startCalls})
    IN  IF isListening THEN UNCHANGED clientVars
        ELSE IF clientRef # 0
        THEN /\ startCalls' = startCalls \cup
                    {[slot |-> slot, pc |-> "ending", target |-> clientRef]}
             /\ clientObjs' = [clientObjs EXCEPT ![clientRef].state =
                                  IF @ \in {"connecting", "connected"} THEN "ending" ELSE @]
             /\ UNCHANGED clientRef
        ELSE LET new == Min(UnusedClients)
             IN  /\ clientRef' = new
                 /\ clientObjs' = [clientObjs EXCEPT ![new].state = "connecting"]
                 /\ startCalls' = startCalls \cup
                        {[slot |-> slot, pc |-> "connecting", target |-> new]}

\* the catch block of startRealTimeSync: logError('REALTIME_SYNC_START_FAILED'),
\* attemptRealtimeReconnection, rethrow
StartFailed(call) ==
    /\ startCalls' = startCalls \ {call}
    /\ errorLog' = errorLog \cup {"REALTIME_SYNC_START_FAILED"}
    /\ ReconnectAfter(1)

\* the first call of startRealTimeSync, by setup or the command line
FirstStart ==
    /\ Running
    /\ shutdownPc = "none"
    /\ clientRef = 0
    /\ startCalls = {}
    /\ reconnectTimers = {}
    /\ realtimeReconnectAttempts = 0
    /\ ~isListening
    /\ BeginStart
    /\ lastStep' = Quiet
    /\ UNCHANGED <<isListening, errorLog, realtimeReconnectAttempts,
                   realtimeReconnectTimeout, reconnectTimers>>
    /\ UNCHANGED <<src, dest, channel, handlers, pendingRejections,
                   isSyncInProgress, scheduledSyncTimeout, timers, passes,
                   schedulerStarts, storeFaults, deleteHandled, connecting,
                   realtimeClient, lifeVars, syncStats, health, retryConfig,
                   backoffCall, transformCall, previousTransform, roleCall,
                   logErrorCalls, placeholderCall>>

\* a reconnection timer fires and calls startRealTimeSync
TimerStart(h) ==
    /\ Running
    /\ h \in reconnectTimers
    /\ ~MicrotaskPending
    /\ ClientRoom
    /\ reconnectTimers' = reconnectTimers \ {h}
    /\ realtimeReconnectTimeout' =
          IF realtimeReconnectTimeout = h THEN -1 ELSE realtimeReconnectTimeout
    /\ BeginStart
    /\ lastStep' = Quiet
    /\ UNCHANGED <<isListening, errorLog, realtimeReconnectAttempts>>
    /\ UNCHANGED <<src, dest, channel, handlers, pendingRejections,
                   isSyncInProgress, scheduledSyncTimeout, timers, passes,
                   schedulerStarts, storeFaults, deleteHandled, connecting,
                   realtimeClient, lifeVars, syncStats, health, retryConfig,
                   backoffCall, transformCall, previousTransform, roleCall,
                   logErrorCalls, placeholderCall>>

\* the connection of a client that was told to end has closed; its 'end'
\* listeners run, and ask for a reconnection if isListening is set
ClientClosed(c) ==
    /\ Running
    /\ clientObjs[c].state = "ending"
    /\ ~MicrotaskPending
    /\ clientObjs' = [clientObjs EXCEPT ![c].state = "ended", ![c].listens = FALSE]
    /\ IF clientObjs[c].handlers > 0 /\ isListening
       THEN /\ CallRoom(1)
            /\ isListening' = FALSE
            /\ ReconnectAfter(1)
       ELSE UNCHANGED <<isListening, realtimeReconnectAttempts,
                        realtimeReconnectTimeout, reconnectTimers>>
    /\ lastStep' = Quiet
    /\ UNCHANGED <<clientRef, startCalls, errorLog>>
    /\ UNCHANGED <<src, dest, channel, handlers, pendingRejections,
                   isSyncInProgress, scheduledSyncTimeout, timers, passes,
                   schedulerStarts, storeFaults, deleteHandled, connecting,
                   realtimeClient, lifeVars, syncStats, health, retryConfig,
                   backoffCall, transformCall, previousTransform, roleCall,
                   logErrorCalls, placeholderCall>>

\* `await this.realtimeClient.end()` has returned: this.realtimeClient = null,
\* then a new client is created, stored and connected
EndReturns(call) ==
    /\ Running
    /\ call \in startCalls
    /\ call.pc = "ending"
    /\ clientObjs[call.target].state = "ended"
    /\ UnusedClients # {}
    /\ LET new == Min(UnusedClients)
       IN  /\ clientRef' = new
           /\ clientObjs' = [clientObjs EXCEPT ![new].state = "connecting"]
           /\ startCalls' = (startCalls \ {call}) \cup
                  {[call EXCEPT !.pc = "connecting", !.target = new]}
    /\ lastStep' = Quiet
    /\ UNCHANGED <<isListening, errorLog, realtimeReconnectAttempts,
                   realtimeReconnectTimeout, reconnectTimers>>
    /\ UNCHANGED <<src, dest, channel, handlers, pendingRejections,
                   isSyncInProgress, scheduledSyncTimeout, timers, passes,
                   schedulerStarts, storeFaults, deleteHandled, connecting,
                   realtimeClient, lifeVars, syncStats, health, retryConfig,
                   backoffCall, transformCall, previousTransform, roleCall,
                   logErrorCalls, placeholderCall>>

\* connect() settles on the client the call created; on success the call goes
\* on with this.realtimeClient.query(...), on whichever client that names now
ConnectSettles(call) ==
    /\ Running
    /\ call \in startCalls
    /\ call.pc = "connecting"
    /\ clientObjs[call.target].state = "connecting"
    /\ ~MicrotaskPending
    /\ \E ok \in Outcomes :
          IF ok
          THEN /\ clientObjs' = [clientObjs EXCEPT ![call.target].state = "connected"]
               /\ IF clientObjs'[clientRef].state \in {"connecting", "connected"}
                  THEN /\ startCalls' = (startCalls \ {call}) \cup
                              {[call EXCEPT !.pc = "query", !.target = clientRef]}
                       /\ UNCHANGED <<errorLog, realtimeReconnectAttempts,
                                      realtimeReconnectTimeout, reconnectTimers>>
                  ELSE StartFailed(call)
          ELSE /\ clientObjs' = [clientObjs EXCEPT ![call.target].state = "ended"]
               /\ StartFailed(call)
    /\ lastStep' = Quiet
    /\ UNCHANGED <<clientRef, isListening>>
    /\ UNCHANGED <<src, dest, channel, handlers, pendingRejections,
                   isSyncInProgress, scheduledSyncTimeout, timers, passes,
                   schedulerStarts, storeFaults, deleteHandled, connecting,
                   realtimeClient, lifeVars, syncStats, health, retryConfig,
                   backoffCall, transformCall, previousTransform, roleCall,
                   logErrorCalls, placeholderCall>>

\* the awaited connect() or query of a call fails because another call has
\* ended the client
AwaitAborted(call) ==
    /\ Running
    /\ call \in startCalls
    /\ call.pc \in {"connecting", "query"}
    /\ clientObjs[call.target].state \in {"ending", "ended"}
    /\ ~MicrotaskPending
    /\ StartFailed(call)
    /\ lastStep' = Quiet
    /\ UNCHANGED <<clientRef, clientObjs, isListening>>
    /\ UNCHANGED <<src, dest, channel, handlers, pendingRejections,
                   isSyncInProgress, scheduledSyncTimeout, timers, passes,
                   schedulerStarts, storeFaults, deleteHandled, connecting,
                   realtimeClient, lifeVars, syncStats, health, retryConfig,
                   backoffCall, transformCall, previousTransform, roleCall,
                   logErrorCalls, placeholderCall>>

\* the awaited queries settle: the function and the trigger are provisioned
\* and LISTEN user_changes has run on the client they were sent to; then the
\* listeners are attached to the client this.realtimeClient names, isListening
\* is set and the attempts are reset
QuerySettles(call) ==
    /\ Running
    /\ call \in startCalls
    /\ call.pc = "query"
    /\ clientObjs[call.target].state = "connected"
    /\ ~MicrotaskPending
    /\ \E ok \in Outcomes :
          IF ok
          THEN /\ clientObjs' =
                     [[clientObjs EXCEPT ![call.target].listens = TRUE]
                         EXCEPT ![clientRef].handlers = @ + 1]
               /\ isListening' = TRUE
               /\ realtimeReconnectAttempts' = ResetOnConnect(realtimeReconnectAttempts)
               /\ startCalls' = startCalls \ {call}
               /\ UNCHANGED <<errorLog, realtimeReconnectTimeout, reconnectTimers>>
          ELSE /\ StartFailed(call)
               /\ UNCHANGED <<clientObjs, isListening>>
    /\ lastStep' = Quiet
    /\ UNCHANGED clientRef
    /\ UNCHANGED <<src, dest, channel, handlers, pendingRejections,
                   isSyncInProgress, scheduledSyncTimeout, timers, passes,
                   schedulerStarts, storeFaults, deleteHandled, connecting,
                   realtimeClient, lifeVars, syncStats, health, retryConfig,
                   backoffCall, transformCall, previousTransform, roleCall,
                   logErrorCalls, placeholderCall>>

\* a client with listeners emits 'error' while its connection stays open (an
\* error message of the server outside a query): every 'error' listener
\* clears isListening and calls attemptRealtimeReconnection
ErrorEvent(c) ==
    /\ Running
    /\ clientObjs[c].state = "connected"
    /\ clientObjs[c].handlers > 0
    /\ ~MicrotaskPending
    /\ CallRoom(clientObjs[c].handlers)
    /\ isListening' = FALSE
    /\ ReconnectAfter(clientObjs[c].handlers)
    /\ lastStep' = Quiet
    /\ UNCHANGED <<clientVars, errorLog>>
    /\ UNCHANGED <<src, dest, channel, handlers, pendingRejections,
                   isSyncInProgress, scheduledSyncTimeout, timers, passes,
                   schedulerStarts, storeFaults, deleteHandled, connecting,
                   realtimeClient, lifeVars, syncStats, health, retryConfig,
                   backoffCall, transformCall, previousTransform, roleCall,
                   logErrorCalls, placeholderCall>>

\* the connection of a client with listeners is lost: the client emits
\* 'error' once or twice (the socket's error, and 'Connection terminated
\* unexpectedly'), then 'end', whose listeners find isListening cleared
ConnectionLost(c) ==
    /\ Running
    /\ clientObjs[c].state = "connected"
    /\ clientObjs[c].handlers > 0
    /\ ~MicrotaskPending
    /\ \E errors \in 1..2 :
          /\ CallRoom(errors * clientObjs[c].handlers)
          /\ ReconnectAfter(errors * clientObjs[c].handlers)
    /\ isListening' = FALSE
    /\ clientObjs' = [clientObjs EXCEPT ![c].state = "ended", ![c].listens = FALSE]
    /\ lastStep' = Quiet
    /\ UNCHANGED <<clientRef, startCalls, errorLog>>
    /\ UNCHANGED <<src, dest, channel, handlers, pendingRejections,
                   isSyncInProgress, scheduledSyncTimeout, timers, passes,
                   schedulerStarts, storeFaults, deleteHandled, connecting,
                   realtimeClient, lifeVars, syncStats, health, retryConfig,
                   backoffCall, transformCall, previousTransform, roleCall,
                   logErrorCalls, placeholderCall>>

\* ---------------------------------------------------------- statistics
\* counters that are updated inside the try block, after the insert
CountWhenPersisted(stats, persisted) ==
    IF persisted
    THEN [stats EXCEPT !.errors = @ + 1, !.consecutiveFailures = @ + 1]
    ELSE stats

\* logError: this.syncStats.errors++; this.syncStats.consecutiveFailures++,
\* after the try/catch around the insert
logErrorStats(stats, persisted) ==
    [stats EXCEPT !.errors = @ + 1, !.consecutiveFailures = @ + 1]

\* the error types of the callers that are followed here
ErrorTypes == {"UPSERT_USER_FAILED", "SCHEDULED_SYNC_FAILED"}

\* a call of logError: the insert into sync_errors succeeds or fails; a failure
\* is caught and printed with console.error, and the counters are updated
LogError ==
    /\ Running
    /\ syncStats.errors < MaxErrors
    /\ \E errorType \in ErrorTypes, persisted \in Outcomes :
          /\ errorLog' = IF persisted THEN errorLog \cup {errorType} ELSE errorLog
          /\ syncStats' = logErrorStats(syncStats, persisted)
          /\ logErrorCalls' = logErrorCalls + 1
          /\ lastStep' = {Event("logError", IF persisted THEN 1 ELSE 0)}
    /\ UNCHANGED <<src, dest, isListening, channel, handlers, pendingRejections,
                   isSyncInProgress, scheduledSyncTimeout, timers, passes,
                   schedulerStarts, storeFaults, deleteHandled, rtVars, lifeVars,
                   health, retryConfig, backoffCall, transformCall,
                   previousTransform, roleCall, clientVars, placeholderCall>>

\* retryWithBackoff: the operation returned; this.syncStats.consecutiveFailures = 0
RetrySucceeded ==
    /\ Running
    /\ syncStats' = [syncStats EXCEPT !.consecutiveFailures = 0]
    /\ lastStep' = Quiet
    /\ UNCHANGED <<src, dest, isListening, channel, handlers, pendingRejections,
                   isSyncInProgress, scheduledSyncTimeout, timers, passes,
                   schedulerStarts, storeFaults, errorLog, deleteHandled, rtVars,
                   lifeVars, health, retryConfig, backoffCall, transformCall,
                   previousTransform, roleCall, clientVars,
                   logErrorCalls, placeholderCall>>

\* bulkSyncUsers, the end of a page: this.syncStats.errors += errorCount;
\* this.syncStats.lastSyncTime = new Date()
PageSynced ==
    /\ Running
    /\ \E errorCount \in 0..1 :
          /\ syncStats.errors + errorCount <= MaxErrors
          /\ syncStats' = [syncStats EXCEPT !.errors = @ + errorCount,
                                            !.sinceLastSync = 0]
    /\ lastStep' = Quiet
    /\ UNCHANGED <<src, dest, isListening, channel, handlers, pendingRejections,
                   isSyncInProgress, scheduledSyncTimeout, timers, passes,
                   schedulerStarts, storeFaults, errorLog, deleteHandled, rtVars,
                   lifeVars, health, retryConfig, backoffCall, transformCall,
                   previousTransform, roleCall, clientVars,
                   logErrorCalls, placeholderCall>>

\* durations of a scheduled cycle, in milliseconds: a short one and one longer
\* than the interval
SampleDurations == {1000, syncIntervalMinutes * 60 * 1000 + 1000}

\* runScheduledSyncCycle: this.syncStats.lastSyncDuration = duration
CycleCompleted ==
    /\ Running
    /\ \E duration \in SampleDurations :
          syncStats' = [syncStats EXCEPT !.lastSyncDuration = duration]
    /\ lastStep' = Quiet
    /\ UNCHANGED <<src, dest, isListening, channel, handlers, pendingRejections,
                   isSyncInProgress, scheduledSyncTimeout, timers, passes,
                   schedulerStarts, storeFaults, errorLog, deleteHandled, rtVars,
                   lifeVars, health, retryConfig, backoffCall, transformCall,
                   previousTransform, roleCall, clientVars,
                   logErrorCalls, placeholderCall>>

\* the times since the last sync that are told apart, in seconds: none at all,
\* a little, and the values around the staleness threshold
SampleTimes ==
    {0, 1} \cup {staleAfterSeconds + d : d \in (0 - TimeSpread)..TimeSpread}

\* time passes after a sync
TimePasses ==
    /\ Running
    /\ syncStats.sinceLastSync >= 0
    /\ \E t \in SampleTimes :
          /\ t > syncStats.sinceLastSync
          /\ syncStats' = [syncStats EXCEPT !.sinceLastSync = t]
    /\ lastStep' = Quiet
    /\ UNCHANGED <<src, dest, isListening, channel, handlers, pendingRejections,
                   isSyncInProgress, scheduledSyncTimeout, timers, passes,
                   schedulerStarts, storeFaults, errorLog, deleteHandled, rtVars,
                   lifeVars, health, retryConfig, backoffCall, transformCall,
                   previousTransform, roleCall, clientVars,
                   logErrorCalls, placeholderCall>>

\* a threshold that lets the count reach it
FailuresUpToThreshold(n) == n <= failureThreshold

\* this.syncStats.consecutiveFailures < 5
LowErrorRate(n) == n < failureThreshold

\* timeSinceLastSync === null || timeSinceLastSync < 600
RecentSyncSuccess(t) == t = -1 \/ t < staleAfterSeconds

\* lastSyncDuration && lastSyncDuration > this.syncIntervalMinutes * 60 * 1000 * 0.8
SlowSync(duration) ==
    duration # 0 /\ duration * 10 > syncIntervalMinutes * 60 * 1000 * 8

\* getHealthRecommendations(isHealthy, timeSinceLastSync); the array is kept
\* as the set of its entries.  `timeSinceLastSync && ...` is false for null
\* and for 0.
getHealthRecommendations(isHealthy, t) ==
    LET recommendations ==
            (IF ~isListening THEN {"REALTIME_NOT_ACTIVE"} ELSE {})
            \cup (IF syncStats.consecutiveFailures >= failureThreshold
                  THEN {"HIGH_CONSECUTIVE_FAILURES"} ELSE {})
            \cup (IF t # -1 /\ t # 0 /\ t > staleAfterSeconds
                  THEN {"NO_SUCCESSFUL_SYNC"} ELSE {})
            \cup (IF SlowSync(syncStats.lastSyncDuration)
                  THEN {"SYNC_DURATION_NEAR_INTERVAL"} ELSE {})
    IN  IF isHealthy /\ recommendations = {}
        THEN {"ALL_OPERATIONAL"} ELSE recommendations

\* getHealthStatus
getHealthStatus ==
    LET t == syncStats.sinceLastSync
        isHealthy == /\ LowErrorRate(syncStats.consecutiveFailures)
                     /\ RecentSyncSuccess(t)
                     /\ isListening
    IN  [status |-> IF isHealthy THEN "HEALTHY" ELSE "UNHEALTHY",
         recommendations |-> getHealthRecommendations(isHealthy, t)]

\* a call of getHealthStatus (the health endpoint, getSyncStats)
GetHealthStatus ==
    /\ Running
    /\ health' = getHealthStatus
    /\ lastStep' = {Event("health", 0)}
    /\ UNCHANGED <<src, dest, isListening, channel, handlers, pendingRejections,
                   isSyncInProgress, scheduledSyncTimeout, timers, passes,
                   schedulerStarts, storeFaults, errorLog, deleteHandled, rtVars,
                   lifeVars, syncStats, retryConfig, backoffCall, transformCall,
                   previousTransform, roleCall, clientVars,
                   logErrorCalls, placeholderCall>>

\* --------------------------------------------------------------- setup
\* setup is called: the initial bulk sync, up to its first page query
Setup ==
    /\ Running
    /\ setupPc = "none"
    /\ setupPc' = SetupOrder[1]
    /\ passes' = passes \cup {NewPass("setup", SetupPageLimit)}
    /\ lastStep' = Quiet
    /\ UNCHANGED <<src, dest, isListening, channel, handlers, pendingRejections,
                   isSyncInProgress, scheduledSyncTimeout, timers, schedulerStarts,
                   storeFaults, unitVars, errorLog, deleteHandled, rtVars, httpServer,
                   shutdownPc, shutdownReason, waited, poolsOpen, statsReported,
                   exitCode>>

\* setup: await this.startRealTimeSync(), up to connect
SetupStartListener ==
    /\ Running
    /\ setupPc = "listener"
    /\ setupPc' = SetupNext(setupPc)
    /\ realtimeClient' = "bare"
    /\ lastStep' = Quiet
    /\ UNCHANGED <<src, dest, isListening, channel, handlers, pendingRejections,
                   isSyncInProgress, scheduledSyncTimeout, timers, passes,
                   schedulerStarts, storeFaults, unitVars, errorLog, deleteHandled,
                   realtimeReconnectAttempts, realtimeReconnectTimeout, reconnectTimers,
                   connecting, httpServer, shutdownPc, shutdownReason, waited,
                   poolsOpen, statsReported, exitCode>>

\* setup: startRealTimeSync returns, or throws after logging and asking for a
\* reconnection, and setup's catch block exits
SetupListenerResult ==
    /\ Running
    /\ setupPc = "connecting"
    /\ \E ok \in Outcomes :
          IF ok
          THEN /\ ListenSucceeded
               /\ setupPc' = SetupNext(setupPc)
               /\ lastStep' = {Event("listening", realtimeReconnectAttempts)}
               /\ UNCHANGED <<reconnectTimers, realtimeReconnectTimeout, errorLog,
                              httpServer, shutdownPc, shutdownReason, waited,
                              poolsOpen, statsReported, exitCode>>
          ELSE /\ errorLog' = errorLog \cup {"REALTIME_SYNC_START_FAILED", "SETUP_FAILED"}
               /\ AttemptRealtimeReconnection
               /\ SetupFailed
               /\ lastStep' = ReconnectionEvents
               /\ UNCHANGED <<isListening, realtimeClient>>
    /\ UNCHANGED <<src, dest, channel, handlers, pendingRejections,
                   isSyncInProgress, scheduledSyncTimeout, timers, passes,
                   schedulerStarts, storeFaults, unitVars, deleteHandled, connecting>>

\* setup: await this.startScheduledSync()
SetupStartScheduler ==
    /\ Running
    /\ setupPc = "scheduler"
    /\ setupPc' = SetupNext(setupPc)
    /\ ArmFirstTrigger
    /\ lastStep' = Quiet
    /\ UNCHANGED <<src, dest, isListening, channel, handlers, pendingRejections,
                   isSyncInProgress, passes, storeFaults, unitVars, errorLog, deleteHandled,
                   rtVars, httpServer, shutdownPc, shutdownReason, waited, poolsOpen,
                   statsReported, exitCode>>

\* setup: verifySyncStatus returns (it catches and logs its own failures), then
\* startHttpServer and setupGracefulShutdown
SetupVerified ==
    /\ Running
    /\ setupPc = "verify"
    /\ setupPc' = SetupNext(setupPc)
    /\ httpServer' = TRUE
    /\ \E ok \in Outcomes :
          errorLog' = IF ok THEN errorLog ELSE errorLog \cup {"VERIFICATION_FAILED"}
    /\ lastStep' = Quiet
    /\ UNCHANGED <<src, dest, isListening, channel, handlers, pendingRejections,
                   isSyncInProgress, scheduledSyncTimeout, timers, passes,
                   schedulerStarts, storeFaults, unitVars, deleteHandled, rtVars,
                   shutdownPc, shutdownReason, waited, poolsOpen, statsReported,
                   exitCode>>

\* ---------------------------------------------------------------- time
\* one minute passes.  A due timer fires before more time passes; a scheduled
\* pass lasts at most MaxPassTicks.
Tick ==
    /\ Running
    /\ \A t \in timers : t.rem > 0
    /\ \A p \in passes : p.kind = "scheduled" => p.elapsed < MaxPassTicks
    /\ src' = [id \in AllIds |->
                 IF src[id].status = "active"
                 THEN [src[id] EXCEPT !.age = Older(@)] ELSE src[id]]
    /\ timers' = {[t EXCEPT !.rem = @ - 1] : t \in timers}
    /\ passes' = {IF p.kind = "scheduled" THEN [p EXCEPT !.elapsed = @ + 1] ELSE p :
                    p \in passes}
    /\ lastStep' = Quiet
    /\ UNCHANGED <<dest, isListening, channel, handlers, pendingRejections,
                   isSyncInProgress, scheduledSyncTimeout,
                   schedulerStarts, storeFaults, unitVars, errorLog, deleteHandled,
                   rtVars, lifeVars>>

\* ------------------------------------------------------ specifications
\* the engine after construction
InitEngine ==
    /\ dest = {}
    /\ isListening = FALSE
    /\ channel = <<>>
    /\ handlers = {}
    /\ pendingRejections = 0
    /\ shutdownPc = "none"
    /\ isSyncInProgress = FALSE
    /\ scheduledSyncTimeout = 0
    /\ timers = {}
    /\ passes = {}
    /\ schedulerStarts = 0
    /\ errorLog = {}
    /\ deleteHandled = {}
    /\ lastStep = Quiet
    /\ realtimeReconnectAttempts = 0
    /\ realtimeReconnectTimeout = 0
    /\ reconnectTimers = {}
    /\ connecting = 0
    /\ realtimeClient = "none"
    /\ setupPc = "none"
    /\ httpServer = FALSE
    /\ shutdownReason = "none"
    /\ waited = 0
    /\ poolsOpen = TRUE
    /\ statsReported = FALSE
    /\ exitCode = -1
    /\ syncStats = [errors |-> 0, consecutiveFailures |-> 0, lastSyncDuration |-> 0,
                    sinceLastSync |-> -1]
    /\ health = [status |-> "NONE", recommendations |-> {}]
    /\ backoffCall = [fn |-> "none", attempt |-> 0, delay |-> 0]
    /\ transformCall = NoTransform
    /\ previousTransform = PhoneOf(NoTransform)
    /\ roleCall = [called |-> FALSE, role |-> [isNull |-> TRUE, text |-> <<>>],
                   result |-> "none"]
    /\ clientRef = 0
    /\ clientObjs = [c \in 1..MaxClients |->
                        [state |-> "unused", listens |-> FALSE, handlers |-> 0]]
    /\ startCalls = {}
    /\ logErrorCalls = 0
    /\ placeholderCall = [called |-> FALSE, id |-> <<>>, phone |-> <<>>]

\* the engine after construction, over an empty source table
InitState ==
    /\ src = [id \in AllIds |-> [status |-> "none", ver |-> 0, age |-> AgeCap]]
    /\ InitEngine
    /\ retryConfig = DefaultRetryConfig

\* the engine after construction, over a source table that holds some of the
\* seed users, all active and just written
InitSeeded ==
    /\ src \in {[id \in AllIds |->
                   IF id \in S THEN [status |-> "active", ver |-> 1, age |-> 0]
                   ELSE [status |-> "none", ver |-> 0, age |-> AgeCap]] :
                 S \in SUBSET SeedIds}
    /\ InitEngine
    /\ retryConfig = DefaultRetryConfig
    /\ storeFaults = TRUE

Init == InitState /\ storeFaults = TRUE

\* the engine constructed with retry settings taken from the environment
InitConfigured ==
    /\ src = [id \in AllIds |-> [status |-> "none", ver |-> 0, age |-> AgeCap]]
    /\ InitEngine
    /\ retryConfig \in RetryConfigs
    /\ storeFaults = TRUE

InitNoFaults == InitState /\ storeFaults = FALSE

\* the engine after construction, over a source table whose users exist, all
\* active and written long ago
InitPopulated ==
    /\ src = [id \in AllIds |->
                IF id \in Ids THEN [status |-> "active", ver |-> 0, age |-> AgeCap]
                ELSE [status |-> "none", ver |-> 0, age |-> AgeCap]]
    /\ InitEngine
    /\ retryConfig = DefaultRetryConfig
    /\ storeFaults = TRUE

Next ==
    \/ StartScheduledSync
    \/ \E t \in timers : TimerFire(t)
    \/ \E p \in passes : PassPageQuery(p)
    \/ \E p \in passes : PassUpsert(p)
    \/ \E id \in Ids, st \in {"active", "inactive"} : SrcWrite(id, st)
    \/ \E id \in Ids : SrcDelete(id)
    \/ StartRealTimeSync
    \/ MalformedNotify
    \/ Deliver
    \/ \E h \in handlers : HandlerQuery(h)
    \/ UnhandledRejection
    \/ ShutdownPoll
    \/ ClientEnded
    \/ ShutdownExit
    \/ Tick

NextBatch ==
    \/ StartScheduledSync
    \/ \E t \in timers : TimerFire(t)
    \/ \E p \in passes : PassPageQuery(p)
    \/ \E p \in passes : PassUpsert(p)
    \/ \E id \in Ids, st \in {"active", "inactive"} : SrcWrite(id, st)
    \/ \E id \in Ids : SrcDelete(id)
    \/ Tick

NextRealtime ==
    \/ \E id \in Ids, st \in {"active", "inactive"} : SrcWrite(id, st)
    \/ \E id \in Ids : SrcDelete(id)
    \/ StartRealTimeSync
    \/ MalformedNotify
    \/ Deliver
    \/ \E h \in handlers : HandlerQuery(h)
    \/ UnhandledRejection
    \/ ClientEnded
    \/ ShutdownExit

\* the real-time path up to the handler's outcome
NextHandlers ==
    \/ \E id \in Ids, st \in {"active", "inactive"} : SrcWrite(id, st)
    \/ \E id \in Ids : SrcDelete(id)
    \/ StartRealTimeSync
    \/ MalformedNotify
    \/ Deliver
    \/ \E h \in handlers : HandlerQuery(h)

\* updates of existing users whose notifications are handled side by side
NextOrder ==
    \/ \E id \in Ids, st \in {"active", "inactive"} : SrcWrite(id, st)
    \/ realtimeClient = "none" /\ StartRealTimeSync
    \/ DeliverConcurrently
    \/ \E h \in handlers : HandlerQuery(h)

\* the scheduler with a source that only gains active users
NextScheduler ==
    \/ StartScheduledSync
    \/ \E t \in timers : TimerFire(t)
    \/ \E p \in passes : PassPageQuery(p)
    \/ \E p \in passes : PassUpsert(p)
    \/ \E id \in Ids : src[id].status = "none" /\ SrcWrite(id, "active")
    \/ Tick

\* the scheduler with a source whose active users are written while it cycles
NextWindow ==
    \/ StartScheduledSync
    \/ \E t \in timers : TimerFire(t)
    \/ \E p \in passes : PassPageQuery(p)
    \/ \E p \in passes : PassUpsert(p)
    \/ \E id \in Ids : SchedulerCycling /\ SrcWrite(id, "active")
    \/ Tick

\* both write paths, one scheduler, a source of active users that are
\* inserted, updated and deleted
NextWriters ==
    \/ schedulerStarts = 0 /\ StartScheduledSync
    \/ \E t \in timers : TimerFire(t)
    \/ \E p \in passes : PassPageQuery(p)
    \/ \E p \in passes : PassUpsert(p)
    \/ \E id \in Ids : SrcWrite(id, "active")
    \/ \E id \in Ids : SrcDelete(id)
    \/ StartRealTimeSync
    \/ Deliver
    \/ \E h \in handlers : HandlerQuery(h)
    \/ Tick

\* both write paths, one scheduler, a source whose users are inserted and
\* updated to any status
NextStatuses ==
    \/ schedulerStarts = 0 /\ StartScheduledSync
    \/ \E t \in timers : TimerFire(t)
    \/ \E p \in passes : PassPageQuery(p)
    \/ \E p \in passes : PassUpsert(p)
    \/ \E id \in Ids, st \in {"active", "inactive"} : SrcWrite(id, st)
    \/ StartRealTimeSync
    \/ Deliver
    \/ \E h \in handlers : HandlerQuery(h)
    \/ Tick

\* the scheduler over a source of active users that are inserted and updated
\* while it cycles, and a destination system that writes presence
NextPresence ==
    \/ schedulerStarts = 0 /\ StartScheduledSync
    \/ \E t \in timers : TimerFire(t)
    \/ \E p \in passes : PassPageQuery(p)
    \/ \E p \in passes : PassUpsert(p)
    \/ \E id \in Ids : SrcWrite(id, "active")
    \/ \E id \in Ids : PresenceWrite(id)
    \/ Tick

\* the writers of syncStats, a listener that is started and ends, and the
\* health evaluation
NextStats ==
    \/ LogError
    \/ RetrySucceeded
    \/ PageSynced
    \/ CycleCompleted
    \/ TimePasses
    \/ realtimeClient = "none" /\ StartRealTimeSync
    \/ ClientEnd
    \/ GetHealthStatus

\* the waits of the retry helper and of the reconnection
NextBackoff ==
    \/ \E attempt \in 1..maxRetries : RetryBackoff(attempt)
    \/ \E attempt \in 1..maxReconnectAttempts : ReconnectBackoff(attempt)

\* the listener's clients under events, timers and calls in any order
NextClients ==
    \/ FirstStart
    \/ \E h \in reconnectTimers : TimerStart(h)
    \/ \E c \in 1..MaxClients : ClientClosed(c)
    \/ \E call \in startCalls : EndReturns(call)
    \/ \E call \in startCalls : ConnectSettles(call)
    \/ \E call \in startCalls : AwaitAborted(call)
    \/ \E call \in startCalls : QuerySettles(call)
    \/ \E c \in 1..MaxClients : ErrorEvent(c)
    \/ \E c \in 1..MaxClients : ConnectionLost(c)

\* roles mapped one after another
NextRoles == \E sourceRole \in SourceRoles : MapRole(sourceRole)

\* rows transformed one after another
NextTransform == \E sourceUser \in SourceUsers : TransformUserData(sourceUser)

\* the listener, started once, and its reconnection
NextReconnect ==
    \/ realtimeClient = "none" /\ StartRealTimeSync
    \/ ClientError
    \/ ClientEnd
    \/ \E h \in reconnectTimers : ReconnectTimerFire(h)
    \/ ConnectFinish

\* setup over a seeded source, and the scheduler it starts
NextSetup ==
    \/ Setup
    \/ \E p \in passes : PassPageQuery(p)
    \/ \E p \in passes : PassUpsert(p)
    \/ SetupStartListener
    \/ SetupListenerResult
    \/ SetupStartScheduler
    \/ SetupVerified
    \/ \E t \in timers : TimerFire(t)
    \/ Tick

\* the steps of shutdown
ShutdownStep ==
    \/ ShutdownPoll
    \/ ClientEnded
    \/ HttpClosed
    \/ ShutdownExit

\* one scheduler, the listener and the status server, all started by setup
\* before the shutdown handlers exist, a source that only gains active users,
\* and a shutdown asked for by a signal or an uncaught exception
NextShutdown ==
    \/ shutdownPc = "none" /\ schedulerStarts = 0 /\ StartScheduledSync
    \/ \E t \in timers : TimerFire(t)
    \/ \E p \in passes : PassPageQuery(p)
    \/ \E p \in passes : PassUpsert(p)
    \/ \E id \in Ids : src[id].status = "none" /\ SrcWrite(id, "active")
    \/ shutdownPc = "none" /\ StartRealTimeSync
    \/ StartHttpServer
    \/ ShutdownSignal
    \/ UncaughtException
    \/ ShutdownStep
    \/ Tick

\* the services started in the order of setup (listener, scheduler, status
\* server, then the signal handlers), a source that gains active users until
\* the signal, and a shutdown asked for by a signal
NextShutdownWait ==
    \/ schedulerStarts = 0 /\ realtimeClient = "none" /\ StartRealTimeSync
    \/ isListening /\ schedulerStarts = 0 /\ StartScheduledSync
    \/ schedulerStarts > 0 /\ StartHttpServer
    \/ \E t \in timers : TimerFire(t)
    \/ \E p \in passes : PassPageQuery(p)
    \/ \E p \in passes : PassUpsert(p)
    \/ \E id \in Ids :
          src[id].status = "none" /\ shutdownPc = "none" /\ SrcWrite(id, "active")
    \/ httpServer /\ ShutdownSignal
    \/ ShutdownStep
    \/ Tick

\* a listener whose connection may fail at any time, a scheduler over an idle
\* source and the status server, and a shutdown asked for by a signal
NextShutdownListener ==
    \/ schedulerStarts = 0 /\ realtimeClient = "none" /\ StartRealTimeSync
    \/ isListening /\ schedulerStarts = 0 /\ shutdownPc = "none" /\ StartScheduledSync
    \/ \E t \in timers : TimerFire(t)
    \/ \E p \in passes : PassPageQuery(p)
    \/ ClientError
    \/ ClientEnd
    \/ \E h \in reconnectTimers : ReconnectTimerFire(h)
    \/ ConnectFinish
    \/ schedulerStarts > 0 /\ StartHttpServer
    \/ httpServer /\ ShutdownSignal
    \/ ShutdownStep
    \/ Tick

\* the engine driven through its calls, with a connection that stays up until
\* shutdown closes it, over stores that may fail
Spec == Init /\ [][Next]_vars
\* the same over stores that do not fail
SpecNoFaults == InitNoFaults /\ [][Next]_vars
\* the scheduled reconciler alone (the listener is never started)
SpecBatch == Init /\ [][NextBatch]_vars
\* the real-time path alone (the scheduler is never started)
SpecRealtime == Init /\ [][NextRealtime]_vars
\* the real-time path with a process that is not shut down
SpecHandlers == Init /\ [][NextHandlers]_vars
SpecScheduler == Init /\ [][NextScheduler]_vars
SpecWindow == InitNoFaults /\ [][NextWindow]_vars
SpecWriters == InitNoFaults /\ [][NextWriters]_vars
SpecStatuses == InitNoFaults /\ [][NextStatuses]_vars

SpecPresence == InitNoFaults /\ [][NextPresence]_vars
SpecStats == Init /\ [][NextStats]_vars
SpecBackoff == InitConfigured /\ [][NextBackoff]_vars
SpecRoles == Init /\ [][NextRoles]_vars
SpecClients == Init /\ [][NextClients]_vars
SpecOrder == InitPopulated /\ [][NextOrder]_vars
SpecTransform == Init /\ [][NextTransform]_vars
SpecReconnect == Init /\ [][NextReconnect]_vars
SpecSetup == InitSeeded /\ [][NextSetup]_vars
SpecShutdownListener == Init /\ [][NextShutdownListener]_vars
SpecShutdown == Init /\ [][NextShutdown]_vars

\* the listener with the event loop's scheduling: a pending reconnection timer
\* fires, a connection attempt settles
SpecReconnectFair ==
    /\ Init
    /\ [][NextReconnect]_vars
    /\ WF_vars(\E h \in reconnectTimers : ReconnectTimerFire(h))
    /\ WF_vars(ConnectFinish)

\* shutdown with the event loop's scheduling: a sleep returns, a close call
\* settles; nothing is assumed of the pass in flight
SpecShutdownFair ==
    /\ Init
    /\ [][NextShutdown]_vars
    /\ WF_vars(ShutdownStep)

\* a shutdown by signal after an ordered start, with the same scheduling
SpecShutdownWaitFair ==
    /\ Init
    /\ [][NextShutdownWait]_vars
    /\ WF_vars(ShutdownStep)

\* the scheduled reconciler over stores that do not fail, with the event loop's
\* scheduling: a started scheduler arms its timer, time passes, a due timer
\* fires, an awaited query returns
SpecBatchFair ==
    /\ InitNoFaults
    /\ [][NextBatch]_vars
    /\ WF_vars(StartScheduledSync)
    /\ WF_vars(Tick)
    /\ WF_vars(\E t \in timers : TimerFire(t))
    /\ WF_vars(\E p \in passes : PassPageQuery(p))
    /\ WF_vars(\E p \in passes : PassUpsert(p))

\* the scheduler of SpecScheduler with the event loop's scheduling
SpecSchedulerFair ==
    /\ Init
    /\ [][NextScheduler]_vars
    /\ WF_vars(Tick)
    /\ WF_vars(\E t \in timers : TimerFire(t))
    /\ WF_vars(\E p \in passes : PassPageQuery(p))
    /\ WF_vars(\E p \in passes : PassUpsert(p))

\* ---------------------------------------------------------- properties
\* C1: at most one scheduled pass is in flight at any time, and a pass in
\* flight holds the mutex; a trigger firing meanwhile starts no second pass.
C1_SinglePassInFlight ==
    /\ Cardinality(passes) <= 1
    /\ passes # {} => isSyncInProgress

\* a trigger fired while a pass was in flight and was skipped
C1_TriggerSkipped == Event("skipped", 0) \in lastStep /\ passes # {}

\* C2: a notification whose handling fails is caught inside the handler: the
\* handler does not raise, and no rejection is left for the process to shut
\* down on.
C2_FailureStaysInHandler ==
    /\ \A e \in lastStep : e.op # "raised"
    /\ pendingRejections = 0

\* C3: the destination holds at most one row per externalId.
C3_OneRowPerExternalId ==
    \A r1, r2 \in dest : r1.externalId = r2.externalId => r1 = r2

\* both paths are about to write different states of an id the destination holds
C3_BothPathsWriting ==
    \E h \in handlers, p \in passes :
        /\ h.kind = "upsert"
        /\ p.users # <<>>
        /\ Head(p.users).id = h.id
        /\ Head(p.users).ver # h.ver
        /\ InDest(h.id)

\* C4: no update made while the scheduler is cycling is left behind by the
\* lookback windows, however long a pass lasts: an active row too old for the
\* window of every pass in flight or to come is in the destination in its
\* latest state.
C4_NoGapBetweenWindows ==
    \A id \in Ids :
        (src[id].status = "active" /\ src[id].age >= AgeCap) => Synced(id)

\* C5: when a pass completes, every active row last written before the pass
\* started and inside its lookback window is in the destination in its latest
\* state.
C5_LatestStateAfterPass ==
    \A e \in lastStep : e.op = "completed" =>
        \A id \in Ids :
            (/\ src[id].status = "active"
             /\ src[id].age > e.n
             /\ src[id].age < lookbackMinutes + e.n) => Synced(id)

\* C6: once the DELETE notification of a deleted source row has been
\* processed, the destination never holds a row for that id again.
C6_NoRowAfterDelete == \A id \in deleteHandled : ~InDest(id)

\* C7: every destination row was written from an active source state, and a
\* notification for a non-active state leaves the destination as it was.
C7_OnlyActiveWritten ==
    /\ [](\A r \in dest : r.status = "active")
    /\ [][(\E e \in lastStep' : e.op = "ignored") => dest' = dest]_vars

\* the notification of a deactivation was dropped while the destination holds the row
C7_InactiveIgnored == \E e \in lastStep : e.op = "ignored" /\ InDest(e.n)

\* C8: a destination row whose source row is no longer active is eventually
\* removed by the scheduled reconciler (or the source row changes again).
C8_InactiveEventuallyRemoved ==
    \A id \in Ids :
        (src[id].status = "inactive" /\ InDest(id))
            ~> ~(src[id].status = "inactive" /\ InDest(id))

\* C9 as stated: the operation is invoked at most maxRetries times, exactly
\* that many when it fails every time.
C9_AtMostMaxRetriesCalls ==
    /\ \A e \in lastStep : e.op = "exhausted" => e.n = maxRetries
    /\ \A h \in handlers : h.calls < maxRetries
    /\ \A p \in passes : p.calls < maxRetries

\* C9: the operation is invoked at most maxRetries + 1 times (one attempt and
\* maxRetries retries), exactly that many when it fails every time.
C9_AtMostMaxRetriesPlusOneCalls ==
    /\ \A e \in lastStep : e.op = "exhausted" => e.n = maxRetries + 1
    /\ \A h \in handlers : h.calls < maxRetries + 1
    /\ \A p \in passes : p.calls < maxRetries + 1

\* an operation failed every time and its last error was thrown
C9_RetriesExhausted == \E e \in lastStep : e.op = "exhausted"

\* C10: a pass is aborted by its page query only after the query failed more
\* than once.
C10_PageQueryRetried ==
    \A e \in lastStep : e.op = "aborted" => e.n > 1

\* C12: a pass that aborts on a failed query leaves the process running, the
\* mutex released and a next trigger armed, and a later pass starts; the mutex
\* is held only while a pass is in flight.
C12_AbortReleasesMutex ==
    /\ [](isSyncInProgress => passes # {})
    /\ []((\E e \in lastStep : e.op = "aborted") =>
            /\ Running
            /\ ~isSyncInProgress
            /\ \E t \in timers : t.kind = "cycle" /\ t.rem = syncIntervalMinutes)
    /\ (\E e \in lastStep : e.op = "aborted") ~> (passes # {})

\* a pass has just aborted on a failed page query
C12_PassAborted == \E e \in lastStep : e.op = "aborted" /\ passes = {}

C11_FailedRowsDoNotAbort ==
    /\ \A p \in passes :
          /\ p.users # <<>> => p.successCount + p.errorCount + Len(p.users) = p.pageLen
          /\ p.errorCount > 0 => "BULK_SYNC_USER_FAILED" \in errorLog
          /\ Cardinality(dest) >= p.successCount
    /\ \A e \in lastStep :
          /\ e.op = "exhausted" =>
                /\ "BULK_SYNC_USER_FAILED" \in errorLog
                /\ \A a \in lastStep : a.op # "aborted"
                /\ passes # {} \/ \E c \in lastStep : c.op = "completed"
          /\ e.op = "pageRows" =>
                \E s, k \in lastStep :
                    /\ s.op = "pageSynced"
                    /\ k.op = "pageFailed"
                    /\ s.n + k.n = e.n
                    /\ Cardinality(dest) >= s.n
                    /\ k.n > 0 => "BULK_SYNC_USER_FAILED" \in errorLog

\* a page of two rows has ended with one row upserted and one logged as failed
C11_PageWithFailureCompleted ==
    /\ Event("pageRows", 2) \in lastStep
    /\ Event("pageSynced", 1) \in lastStep
    /\ Event("pageFailed", 1) \in lastStep
    /\ Cardinality(dest) = 1

\* C14: realtimeReconnectAttempts never exceeds maxReconnectAttempts, and once
\* a reconnection has been asked for with the counter at the maximum no
\* reconnection is scheduled any more and the listener never listens again.
C14_GivenUpIsTerminal ==
    /\ [](realtimeReconnectAttempts <= maxReconnectAttempts)
    /\ []((\E e \in lastStep : e.op = "givenUp") =>
            [](/\ ~isListening
               /\ \A e \in lastStep : e.op # "scheduled"))

\* C15: whenever startRealTimeSync completes with connect, trigger provisioning
\* and LISTEN all succeeded, the listener is listening and
\* realtimeReconnectAttempts is 0.
C15_SuccessResetsAttempts ==
    \A e \in lastStep :
        e.op = "listening" => isListening /\ realtimeReconnectAttempts = 0

\* a reconnection has succeeded after attempts had been counted
C15_ReconnectedAfterAttempts ==
    \E e \in lastStep : e.op = "listening" /\ e.n > 1 /\ isListening

\* C16: once shutdown has been requested and until the process exits, no
\* scheduled pass starts and no scheduler timer is armed, also when the pass
\* that was in flight at the signal finishes during the wait of shutdown.
C16_NoTimerAfterSignal ==
    (shutdownPc \in {"waiting", "closingClient", "closingHttp", "closingPools"})
        => timers = {}

\* C17: a shutdown started by an uncaught exception or an unhandled rejection
\* ends with a non-zero exit code, whatever the outcome of its steps.
C17_FatalExitsNonZero ==
    (shutdownPc = "exited"
        /\ shutdownReason \in {"UNCAUGHT_EXCEPTION", "UNHANDLED_REJECTION"})
        => exitCode # 0

C19_ShutdownOrder ==
    /\ [][(shutdownPc \in {"none", "waiting"}
            /\ shutdownPc' \in {"closingClient", "closingHttp", "closingPools"})
            => (~isSyncInProgress \/ waited' = MaxWaitPolls)]_vars
    /\ []((~poolsOpen /\ shutdownReason # "none")
            => realtimeClient \in {"none", "ended"})
    /\ []((shutdownPc = "exited" /\ shutdownReason # "none") => statsReported)

\* C20: in setup the listener's client exists only once the initial full
\* reconciliation has left the set of passes, the scheduler is armed only with
\* the listener listening, and a scheduled pass runs only after both.
C20_SetupOrder ==
    /\ (realtimeClient # "none") =>
          /\ setupPc \notin {"none", "sync"}
          /\ \A p \in passes : p.kind # "setup"
    /\ (schedulerStarts > 0 \/ timers # {}) =>
          /\ isListening
          /\ realtimeClient = "listening"
          /\ setupPc \in {"verify", "done"}
    /\ (isSyncInProgress \/ \E p \in passes : p.kind = "scheduled") =>
          /\ isListening
          /\ schedulerStarts > 0
          /\ \A p \in passes : p.kind # "setup"

\* after a complete setup over a seeded source a scheduled pass is in flight
C20_ScheduledPassAfterSetup ==
    /\ setupPc = "done"
    /\ isListening
    /\ dest # {}
    /\ \E p \in passes : p.kind = "scheduled" /\ p.users # <<>>

\* C21: a DELETE notification whose query the store executes leaves no
\* destination row with that externalId and touches no other row; when no row
\* matched, the destination is unchanged, nothing is logged and nothing is
\* raised.
C21_DeleteOfAbsentRowIsQuiet ==
    [][\A e \in lastStep' : e.op = "deleted" =>
          /\ dest' = {r \in dest : r.externalId # e.n}
          /\ Event("deletedRows", 0) \in lastStep' =>
                /\ dest' = dest
                /\ errorLog' = errorLog
                /\ pendingRejections' = pendingRejections
                /\ \A f \in lastStep' : f.op \in {"deleted", "deletedRows"}]_vars

\* a DELETE has been processed for an id of which the destination held no row
C21_DeletedAbsentRow ==
    /\ Event("deletedRows", 0) \in lastStep
    /\ \E id \in Ids : Event("deleted", id) \in lastStep /\ ~InDest(id)

C28_PresenceKeptOnConflict ==
    [][(\A e \in lastStep' : e.op # "presence") =>
          /\ \A r \in dest, w \in dest' :
                r.externalId = w.externalId => Presence(w) = Presence(r)
          /\ \A w \in dest' :
                (\A r \in dest : r.externalId # w.externalId)
                    => Presence(w) = <<0, FALSE, 0>>]_vars

\* an update of a user has been upserted into a row whose presence columns
\* the destination system had set
C28_UpdatedRowOnline ==
    \E e \in lastStep, r \in dest :
        /\ e.op = "upserted"
        /\ Event("upsertedSame", e.n) \notin lastStep
        /\ r.externalId = e.n
        /\ r.ver > 1
        /\ r.isOnline /\ r.socketId = 1 /\ r.lastSeen = 1

C23_LogErrorIsBestEffort ==
    [][(\E e \in lastStep' : e.op = "logError") =>
          /\ Cardinality({e \in lastStep' : e.op = "logError"}) = 1
          /\ syncStats'.errors = syncStats.errors + 1
          /\ syncStats'.consecutiveFailures = syncStats.consecutiveFailures + 1
          /\ pendingRejections' = pendingRejections
          /\ shutdownPc' = shutdownPc
          /\ Event("logError", 0) \in lastStep' => errorLog' = errorLog]_vars

\* logError was called, its insert failed, and the failure was counted
C23_InsertFailedAndCounted ==
    /\ Event("logError", 0) \in lastStep
    /\ syncStats.errors = 1
    /\ syncStats.consecutiveFailures = 1
    /\ errorLog = {}

C25_HintForEveryFailingSignal ==
    (Event("health", 0) \in lastStep /\ health.status = "UNHEALTHY") =>
        /\ health.recommendations # {}
        /\ ~isListening => "REALTIME_NOT_ACTIVE" \in health.recommendations
        /\ syncStats.consecutiveFailures >= failureThreshold
              => "HIGH_CONSECUTIVE_FAILURES" \in health.recommendations
        /\ (syncStats.sinceLastSync # -1 /\ syncStats.sinceLastSync >= staleAfterSeconds)
              => "NO_SUCCESSFUL_SYNC" \in health.recommendations


\* C26: the wait before retry attempt k, and before reconnection attempt k, is
\* the initial delay for k = 1 and otherwise the wait of attempt k - 1 times
\* the multiplier, cut to the maximum delay; so it never decreases with k,
\* never exceeds the maximum delay, and with the defaults is 1000, 2000, 4000,
\* 8000, 16000 and then 30000
C26_BackoffDelay ==
    backoffCall.fn # "none" =>
        LET k == backoffCall.attempt
            cap == retryConfig.maxDelayMs
            Cut(d) == IF d < cap THEN d ELSE cap
            DefaultWaits == <<1000, 2000, 4000, 8000, 16000, 30000, 30000,
                              30000, 30000, 30000>>
            RECURSIVE Wait(_)
            Wait(j) == IF j = 1 THEN Cut(retryConfig.initialDelayMs)
                       ELSE Cut(Wait(j - 1) * retryConfig.backoffMultiplier)
        IN  /\ backoffCall.delay = Wait(k)
            /\ backoffCall.delay <= cap
            /\ \A j \in 1..k : Wait(j) <= backoffCall.delay
            /\ retryConfig = DefaultRetryConfig => backoffCall.delay = DefaultWaits[k]

\* C26 witness: with the defaults the sixth reconnection waits the maximum delay
C26_SixthReconnectionCapped ==
    /\ retryConfig = DefaultRetryConfig
    /\ backoffCall = [fn |-> "attemptRealtimeReconnection", attempt |-> 6,
                      delay |-> 30000]


\* C29: a source row whose email_verified is false or missing is transformed
\* to a record with a null email whatever its email; an email is in the
\* transformed record only when email_verified is true, and then it is the
\* source email
C29_EmailOnlyWhenVerified ==
    transformCall.called =>
        /\ transformCall.source.email_verified # "true" => transformCall.email = "null"
        /\ transformCall.email # "null" =>
              /\ transformCall.source.email_verified = "true"
              /\ transformCall.email = transformCall.source.email

\* C29 witness: an unverified row with an email was transformed
C29_UnverifiedEmailDropped ==
    /\ transformCall.called
    /\ transformCall.source.email = "x@y.com"
    /\ transformCall.source.email_verified = "false"
    /\ transformCall.email = "null"

\* C30: two calls of sanitizePhone with a missing phone (null, empty or blank)
\* return different placeholders when the first eight hex characters of their
\* ids differ, and the same placeholder when the ids are the same
C30_PlaceholdersDifferById ==
    LET Missing(phone) == phone.isNull \/ IsBlank(phone.text)
    IN  (/\ transformCall.called
         /\ previousTransform.called
         /\ Missing(transformCall.source.phone)
         /\ Missing(previousTransform.sourcePhone))
        => /\ transformCall.source.id # previousTransform.id
                => transformCall.phone # previousTransform.phone
           /\ transformCall.source.id = previousTransform.id
                => transformCall.phone = previousTransform.phone

\* C31: for a source row with a hex id sanitizePhone returns a non-empty string
\* of decimal digits: the digits of the source phone, in their order, when it
\* has at least one, and the placeholder (a 9 and nine digits made from the
\* id) when the phone is null, empty, blank or without a digit
C31_PhoneIsDigitsOrPlaceholder ==
    transformCall.called =>
        LET source == transformCall.source.phone
            phone == transformCall.phone
            Decimal == {"0", "1", "2", "3", "4", "5", "6", "7", "8", "9"}
            RECURSIVE DigitsOf(_)
            DigitsOf(text) ==
                IF text = <<>> THEN <<>>
                ELSE IF Head(text) \in Decimal
                     THEN <<Head(text)>> \o DigitsOf(Tail(text))
                     ELSE DigitsOf(Tail(text))
            hasDigit == ~source.isNull /\ DigitsOf(source.text) # <<>>
        IN  /\ phone # <<>>
            /\ \A i \in 1..Len(phone) : phone[i] \in Decimal
            /\ hasDigit => phone = DigitsOf(source.text)
            /\ ~hasDigit =>
                  /\ phone = PlaceholderPhone(transformCall.source.id)
                  /\ Len(phone) = 10
                  /\ phone[1] = "9"

\* C31 witness: a phone of separators only was replaced by the placeholder
C31_SeparatorsOnlyGetPlaceholder ==
    /\ transformCall.called
    /\ transformCall.source.phone = [isNull |-> FALSE, text |-> <<"-", " ">>]
    /\ transformCall.phone = PlaceholderPhone(transformCall.source.id)

\* C32: mapRole returns customer, usta or administrator for every role:
\* whatever the case of its letters, service_provider and provider give usta,
\* admin, administrator and super_admin give administrator, and every other
\* role, or none, gives customer
C32_MapRoleIsTotal ==
    roleCall.called =>
        LET lower == toLowerCase(roleCall.role.text)
            Usta == {<<"s", "e", "r", "v", "i", "c", "e", "_", "p", "r", "o", "v", "i", "d", "e", "r">>,
                     <<"p", "r", "o", "v", "i", "d", "e", "r">>}
            Administrator == {<<"a", "d", "m", "i", "n">>,
                              <<"a", "d", "m", "i", "n", "i", "s", "t", "r", "a", "t", "o", "r">>,
                              <<"s", "u", "p", "e", "r", "_", "a", "d", "m", "i", "n">>}
        IN  /\ roleCall.result \in {"customer", "usta", "administrator"}
            /\ roleCall.result = "usta" <=> (~roleCall.role.isNull /\ lower \in Usta)
            /\ roleCall.result = "administrator"
                  <=> (~roleCall.role.isNull /\ lower \in Administrator)

\* C33: change events for one id are applied in the order they were received:
\* once every notification has been handled without a failure, the
\* destination row of an active user reflects the last update of that user
C33_EventsAppliedInOrder ==
    (/\ channel = <<>>
     /\ handlers = {}
     /\ errorLog = {}
     /\ pendingRejections = 0)
    => \A r \in dest :
          src[r.externalId].status = "active" => r.ver = src[r.externalId].ver

\* C34: at any time at most one 'notification' listener is attached to a
\* client that is subscribed to the channel, so that no notification is
\* processed twice, whatever the order of error and end events, reconnection
\* timers and calls of startRealTimeSync
C34_OneSubscribedHandler ==
    /\ \A c \in 1..MaxClients :
          clientObjs[c].state = "connected" /\ clientObjs[c].listens
              => clientObjs[c].handlers <= 1
    /\ Cardinality({c \in 1..MaxClients :
                       /\ clientObjs[c].state = "connected"
                       /\ clientObjs[c].listens
                       /\ clientObjs[c].handlers > 0}) <= 1

\* C35: one loss of the listener's connection, however it surfaces, counts one
\* reconnection attempt and leaves at most one reconnection timer pending:
\* while the lost client is still the current one, realtimeReconnectAttempts
\* is 1 and at most one timer is pending
C35_OneAttemptPerLoss ==
    realtimeClient \in {"broken", "ended"} =>
        /\ realtimeReconnectAttempts = 1
        /\ Cardinality(reconnectTimers) <= 1

\* C36: once shutdown has begun the listener never reconnects: no reconnection
\* timer is armed and no connection attempt makes the listener listen again,
\* also when the connection fails while shutdown waits for a pass in flight
C36_NoReconnectionDuringShutdown ==
    shutdownPc # "none" =>
        \A e \in lastStep : e.op # "scheduled" /\ e.op # "listening"

\* ------------------------------------------------- the scheduled cycle
\* bulkSyncUsers, the loop over the users of a page, from user i on:
\* retryWithBackoff resets consecutiveFailures when the upsert returns; when
\* the retries are used up the catch calls logError.  results[i] tells
\* whether user i was written.
RECURSIVE SyncUsers(_, _, _, _)
SyncUsers(stats, results, rows, i) ==
    IF i > rows THEN stats
    ELSE SyncUsers(IF results[i]
                   THEN [stats EXCEPT !.consecutiveFailures = 0]
                   ELSE logErrorStats(stats, TRUE),
                   results, rows, i + 1)

\* bulkSyncUsers: errorCount++ in the catch of a user
ErrorCount(results, rows) == Cardinality({i \in 1..rows : ~results[i]})

\* bulkSyncUsers after its query returned rows users: nothing for an empty
\* page (return false); else the loop, this.syncStats.errors += errorCount
\* and this.syncStats.lastSyncTime = new Date()
bulkSyncUsersStats(stats, results, rows) ==
    IF rows = 0 THEN stats
    ELSE [SyncUsers(stats, results, rows, 1)
              EXCEPT !.errors = @ + ErrorCount(results, rows),
                     !.sinceLastSync = 0]

\* runScheduledSyncCycle is called by its timer and no cycle is running:
\* this.isSyncInProgress = true
CycleBegins ==
    /\ Running
    /\ ~isSyncInProgress
    /\ isSyncInProgress' = TRUE
    /\ lastStep' = Quiet
    /\ UNCHANGED <<src, dest, isListening, channel, handlers, pendingRejections,
                   scheduledSyncTimeout, timers, passes, schedulerStarts,
                   storeFaults, errorLog, deleteHandled, rtVars, lifeVars,
                   unitVars>>

\* one turn of the loop of runScheduledSyncCycle: bulkSyncUsers(limit, offset,
\* since).  A query that fails is logged by bulkSyncUsers and rethrown; the
\* catch of the cycle logs it again and the cycle ends.  A page that is not
\* full ends the cycle: lastSyncDuration = duration, isSyncInProgress = false.
CyclePage ==
    /\ Running
    /\ isSyncInProgress
    /\ \E queried \in Outcomes, rows \in 0..PageLimit,
          duration \in SampleDurations, persisted \in Outcomes :
       \E results \in [1..rows -> Outcomes] :
          IF ~queried
          THEN /\ syncStats.errors + 2 <= MaxErrors
               /\ syncStats' = logErrorStats(logErrorStats(syncStats, persisted),
                                              persisted)
               /\ logErrorCalls' = logErrorCalls + 2
               /\ errorLog' = IF persisted
                              THEN errorLog \cup {"BULK_SYNC_FAILED",
                                                  "SCHEDULED_SYNC_FAILED"}
                              ELSE errorLog
               /\ isSyncInProgress' = FALSE
               /\ lastStep' = {Event("cycleFailed", 0)}
          ELSE LET synced == bulkSyncUsersStats(syncStats, results, rows)
                   failed == ErrorCount(results, rows)
                   hasMore == rows = PageLimit
               IN  /\ syncStats.errors + 2 * failed <= MaxErrors
                   /\ syncStats' = IF hasMore THEN synced
                                   ELSE [synced EXCEPT !.lastSyncDuration = duration]
                   /\ logErrorCalls' = logErrorCalls + failed
                   /\ errorLog' = IF persisted /\ failed > 0
                                  THEN errorLog \cup {"BULK_SYNC_USER_FAILED"}
                                  ELSE errorLog
                   /\ isSyncInProgress' = hasMore
                   /\ lastStep' = IF hasMore THEN {Event("page", rows - failed)}
                                  ELSE {Event("cycleDone", rows - failed)}
    /\ UNCHANGED <<src, dest, isListening, channel, handlers, pendingRejections,
                   scheduledSyncTimeout, timers, passes, schedulerStarts,
                   storeFaults, deleteHandled, rtVars, lifeVars, health,
                   retryConfig, backoffCall, transformCall, previousTransform,
                   roleCall, clientVars, placeholderCall>>

\* scheduled cycles one after another, time passing between them, a listener
\* that is started, and the health evaluation
NextCycle ==
    \/ CycleBegins
    \/ CyclePage
    \/ ~isSyncInProgress /\ TimePasses
    \/ realtimeClient = "none" /\ StartRealTimeSync
    \/ GetHealthStatus

SpecCycle == Init /\ [][NextCycle]_vars

\* C37: a scheduled pass that completes without a pass-level failure has set
\* lastSyncTime, also when it found no changed record: at the completion of a
\* cycle no time has passed since the last sync.
C37_CompletedPassAdvancesLastSyncTime ==
    (\E e \in lastStep : e.op = "cycleDone") => syncStats.sinceLastSync = 0

\* ------------------------------------------------- pages of a live table
\* the engine after construction, over a source table that holds the seed
\* users, all active and written a minute apart, and stores that do not fail
InitStaggered ==
    /\ src = [id \in AllIds |->
                IF id \in SeedIds
                THEN [status |-> "active", ver |-> 1, age |-> id - NumIds - 1]
                ELSE [status |-> "none", ver |-> 0, age |-> AgeCap]]
    /\ InitEngine
    /\ retryConfig = DefaultRetryConfig
    /\ storeFaults = FALSE

\* one scheduler whose passes page through the source while the upstream
\* application inserts, updates, deactivates and deletes other users
NextPaging ==
    \/ schedulerStarts = 0 /\ StartScheduledSync
    \/ \E t \in timers : TimerFire(t)
    \/ \E p \in passes : PassPageQuery(p)
    \/ \E p \in passes : PassUpsert(p)
    \/ \E id \in Ids, st \in {"active", "inactive"} : SrcWrite(id, st)
    \/ \E id \in Ids : SrcDelete(id)
    \/ Tick

SpecPaging == InitStaggered /\ [][NextPaging]_vars

\* C38: a batch pass upserts every record that is eligible and inside the
\* lookback window for the whole pass, whatever happens to other records
\* between its page queries: when a pass completes, every seed user (none of
\* them is written during the run) that is active and inside the window of
\* the pass is in the destination.
C38_PassCoversWindow ==
    \A e \in lastStep : e.op = "completed" =>
        \A id \in SeedIds : Eligible(id, e.n) => InDest(id)

\* C39: syncStats.errors equals the number of invocations of logError, each
\* failed operation adding exactly one to it.
C39_ErrorsCountLogErrorCalls == syncStats.errors = logErrorCalls

\* ------------------------------------------------- the diagnostic tool
\* DiagnosticTool.generatePlaceholderPhone(userId), with userId given by its
\* hex part:
\* `9${parseInt(hexPart, 16).toString().substring(0, 10).padStart(9, '0')}`
generatePlaceholderPhone(hexPart) ==
    <<"9">> \o PadStart(Substring(HexToDecimalString(hexPart), 10), 9)

\* the tool computes the placeholder of a user it found with a phone issue
GeneratePlaceholderPhone(hexPart) ==
    /\ Running
    /\ placeholderCall' = [called |-> TRUE, id |-> hexPart,
                           phone |-> generatePlaceholderPhone(hexPart)]
    /\ lastStep' = Quiet
    /\ UNCHANGED <<src, dest, isListening, channel, handlers, pendingRejections,
                   isSyncInProgress, scheduledSyncTimeout, timers, passes,
                   schedulerStarts, storeFaults, errorLog, deleteHandled, rtVars,
                   lifeVars, syncStats, health, retryConfig, backoffCall,
                   transformCall, previousTransform, roleCall, clientVars,
                   logErrorCalls>>

\* WHERE phone IS NULL OR phone = '' OR LENGTH(TRIM(phone)) = 0: the users the
\* tool lists as having no phone
MissingPhone(sourceUser) ==
    sourceUser.phone.isNull \/ IsBlank(sourceUser.phone.text)

\* the service transforms users without a phone and the tool predicts their
\* placeholders
NextDiagnostic ==
    \/ \E sourceUser \in SourceUsers :
          MissingPhone(sourceUser) /\ TransformUserData(sourceUser)
    \/ \E hexPart \in HexIds : GeneratePlaceholderPhone(hexPart)

SpecDiagnostic == Init /\ [][NextDiagnostic]_vars

\* C40: for a user without a phone the diagnostic tool's
\* generatePlaceholderPhone returns the placeholder that sanitizePhone gives
\* the same user.
C40_ToolPredictsPlaceholder ==
    (/\ transformCall.called
     /\ placeholderCall.called
     /\ placeholderCall.id = transformCall.source.id)
    => placeholderCall.phone = transformCall.phone

====
